---- MODULE Spec2Model ----
(***************************************************************************)
(* A model of OpenAccess_EPUB:                                             *)
(*   - the `convert` command (src/src/openaccess_epub/commands/convert.py) *)
(*   - the OPS content generator (src/content.py)                          *)
(*   - the utility layer (src/src/openaccess_epub/utils/__init__.py)       *)
(* Each component has its own specification (SpecConvert, ...); the        *)
(* variables of the other components stay at their idle values.            *)
(***************************************************************************)
EXTENDS Integers, Sequences, FiniteSets, TLC

(***************************************************************************)
(* Bounds of the model.                                                    *)
(***************************************************************************)
\* the longest INPUT list given on the command line
MaxInputs == 2

(***************************************************************************)
(* Python values and string functions.                                     *)
(***************************************************************************)
\* Python's None (all other values of the variables that may hold it are
\* strings that differ from it)
None == "<None>"

UpperChars == "ABCDEFGHIJKLMNOPQRSTUVWXYZ"
LowerChars == "abcdefghijklmnopqrstuvwxyz"

\* str.lower() on one character
LowerChar(c) ==
  IF \E i \in 1..Len(UpperChars) : SubSeq(UpperChars, i, i) = c
  THEN LET i == CHOOSE j \in 1..Len(UpperChars) : SubSeq(UpperChars, j, j) = c
       IN  SubSeq(LowerChars, i, i)
  ELSE c

RECURSIVE Lower(_)
\* str.lower()
Lower(s) ==
  IF s = "" THEN ""
  ELSE LowerChar(SubSeq(s, 1, 1)) \o Lower(SubSeq(s, 2, Len(s)))

\* str.startswith(p)
StartsWith(s, p) == Len(s) >= Len(p) /\ SubSeq(s, 1, Len(p)) = p

\* str.endswith(p)
EndsWith(s, p) ==
  Len(s) >= Len(p) /\ SubSeq(s, Len(s) - Len(p) + 1, Len(s)) = p

\* str.rfind(c) for a one-character c: the last position of c in s, 0 if none
RFind(s, c) ==
  LET hits == {i \in 1..Len(s) : SubSeq(s, i, i) = c}
  IN  IF hits = {} THEN 0 ELSE CHOOSE i \in hits : \A j \in hits : j <= i

\* posixpath.basename
basename(p) == SubSeq(p, RFind(p, "/") + 1, Len(p))

\* posixpath.dirname (of a path without a trailing slash run)
dirname(p) ==
  LET i == RFind(p, "/")
  IN  IF i = 0 THEN "" ELSE IF i = 1 THEN "/" ELSE SubSeq(p, 1, i - 1)

\* posixpath.join of two components
join(a, b) ==
  IF StartsWith(b, "/") THEN b
  ELSE IF a = "" \/ EndsWith(a, "/") THEN a \o b
  ELSE a \o "/" \o b

\* posixpath.splitext(p)[0] of a basename
splitext0(bn) ==
  LET i == RFind(bn, ".")
  IN  IF i <= 1 THEN bn ELSE SubSeq(bn, 1, i - 1)

(***************************************************************************)
(* utils: getFileRoot                                                      *)
(***************************************************************************)
getFileRoot(path) == splitext0(basename(path))

(***************************************************************************)
(* The convert command.                                                    *)
(***************************************************************************)
VARIABLES
  args,            \* docopt's result: INPUT, --no-log-file, --log-to
  pc,              \* main's position
  idx,             \* the position in args.INPUT of the item of the for loop
  root_name,       \* main's root_name
  abs_input_path,  \* main's abs_input_path
  fileHandler,     \* the file the 'openaccess_epub' logger's FileHandler writes
  files,           \* the log files on disk: path -> the items logged in it
  trace            \* history: the steps main has taken, in order

convertVars ==
  <<args, pc, idx, root_name, abs_input_path, fileHandler, files, trace>>

(***************************************************************************)
(* The content generator (OPSContent).                                     *)
(***************************************************************************)
VARIABLES
  heap,      \* the DOM nodes of all documents: node id -> node
  cpc,       \* the position in OPSContent.__init__ and the method it runs
  doc,       \* self.doc: the node id of the parsed input document
  meta,      \* the metadata the synopsis reads
  images,    \* the files under OPS/images, in the order os.walk yields them
  outputs,   \* the output files written: name -> serialized document
  loc,       \* the local variables of the running method
  raised,    \* the exception that ended the constructor, None if none
  hist,      \* history: what the loops of createMain did to each node
  run        \* the constructions on this input: which one runs, what the
             \* earlier one left

contentVars ==
  <<heap, cpc, doc, meta, images, outputs, loc, raised, hist, run>>

(***************************************************************************)
(* The metadata model (JPTSMeta and its version classes).                  *)
(***************************************************************************)
VARIABLES
  mdom,      \* the DOM nodes of the document the metadata is read from
  mcls,      \* the class constructed: JPTSMeta20, JPTSMeta23 or JPTSMeta30
  mpc,       \* the position in JPTSMeta.__init__ and the method it runs
  self,      \* the attributes of the object set so far: name -> value
  mraised,   \* the exception that ended the constructor, None if none
  mhist      \* history: the <pub-date> elements getPubDate processed

metaVars == <<mdom, mcls, mpc, self, mraised, mhist>>

(***************************************************************************)
(* The EPUB directory and its packaging (makeEPUBBase, epubZip).           *)
(***************************************************************************)
VARIABLES
  disk,      \* the files on disk: path -> content
  dirs,      \* the directories on disk
  zpc,       \* the position in makeEPUBBase / epubZip
  epub,      \* the entries written to the archive, in order
  todo,      \* recursive_zip: the directory listings still to go through
  zraised,   \* the exception that ended the call, None if none
  cwd,       \* the working directory of the process
  zsaved     \* epubZip's local current_dir

zipVars == <<disk, dirs, zpc, epub, todo, zraised, cwd, zsaved>>

vars == <<convertVars, contentVars, metaVars, zipVars>>

\* the variables a step of one component leaves alone
exceptConvert == <<contentVars, metaVars, zipVars>>
exceptContent == <<convertVars, metaVars, zipVars>>
exceptMeta == <<convertVars, contentVars, zipVars>>
exceptZip == <<convertVars, contentVars, metaVars>>

\* the metadata model is not running
MetaIdle ==
  /\ mdom = <<>>
  /\ mcls = ""
  /\ mpc = "idle"
  /\ self = <<>>
  /\ mraised = None
  /\ mhist = <<>>

\* no EPUB directory is being made or packaged
ZipIdle ==
  /\ disk = <<>>
  /\ dirs = {}
  /\ zpc = "idle"
  /\ epub = <<>>
  /\ todo = <<>>
  /\ zraised = None
  /\ cwd = None
  /\ zsaved = None

\* the content generator is not running
ContentIdle ==
  /\ heap = <<>>
  /\ cpc = "idle"
  /\ doc = 0
  /\ meta = <<>>
  /\ images = <<>>
  /\ outputs = <<>>
  /\ loc = <<>>
  /\ raised = None
  /\ hist = <<>>
  /\ run = <<>>

\* the convert command is not running
ConvertIdle ==
  /\ args = <<>>
  /\ pc = "idle"
  /\ idx = 0
  /\ root_name = None
  /\ abs_input_path = None
  /\ fileHandler = None
  /\ files = <<>>
  /\ trace = <<>>

\* os.getcwd() at the start of main
current_dir == "/cwd"

\* the scratch log, a path relative to the working directory
TempLog == join(current_dir, "temp.log")

\* the INPUT tokens the model draws the command line from
Tokens ==
  { "article.xml", "d/A.XML", "doi:10.1371/journal.pone.0000001",
    "DOI:10.1/x", "http://example.org/a.xml", "http://example.org/b",
    "ftp://x" }

\* the values of --log-to: not given, or a file path
LogToValues == {None, "/cwd/all.log"}

RECURSIVE SeqsUpTo(_, _)
\* the sequences over S of length 1..n
SeqsUpTo(S, n) ==
  IF n = 0 THEN {}
  ELSE LET shorter == SeqsUpTo(S, n - 1)
       IN  {<<x>> : x \in S} \cup shorter
             \cup {Append(s, x) : s \in shorter, x \in S}

\* the branch of the if/elif chain a token takes
Classify(inpt) ==
  IF EndsWith(Lower(inpt), ".xml") THEN "xml"
  ELSE IF StartsWith(Lower(inpt), "doi:") THEN "doi"
  ELSE IF StartsWith(Lower(inpt), "http:") THEN "url"
  ELSE "exit"

\* openaccess_epub.utils.file_root_name
file_root_name(inpt) == getFileRoot(inpt)

\* openaccess_epub.utils.get_absolute_path
get_absolute_path(inpt) == join(current_dir, inpt)

\* the root name input_utils.doi_input / url_input return when they succeed:
\* the name of the XML file they cache in the working directory
doi_input(inpt) == splitext0(basename(inpt))
url_input(inpt) == splitext0(basename(inpt))

\* oae_logging.config_logging: a FileHandler only when file logging is
\* allowed and a file is named
config_logging(a) ==
  IF ~a.no_log_file /\ a.log_to # None THEN a.log_to ELSE None

\* PerInputLog with the test of --log-to forgotten
PerInputLog_noLogTo(a) == ~a.no_log_file

\* the condition of both `if not args['--no-log-file'] and not
\* args['--log-to']` statements
PerInputLog(a) == ~a.no_log_file /\ a.log_to = None

\* LogPath with the log placed in the working directory
LogPath_cwd(abs, root) == join(current_dir, root \o ".log")

\* log_name / log_path
LogPath(abs, root) == join(dirname(abs), root \o ".log")

\* NextItem skipping every other item
NextItem_skip(i) == i + 2

\* the index of the item the for statement takes after item i
NextItem(i) == i + 1

\* logging.FileHandler(path): opens the file for appending
Opened(fs, path) ==
  IF path \in DOMAIN fs THEN fs
  ELSE [p \in DOMAIN fs \cup {path} |-> IF p = path THEN {} ELSE fs[p]]

\* shutil.move(src, dst) of a file on one file system
Moved(fs, src, dst) ==
  IF src = dst THEN fs
  ELSE [p \in (DOMAIN fs \ {src}) \cup {dst} |->
          IF p = dst THEN fs[src] ELSE fs[p]]

\* one step of main: the item it belongs to, and the file handler after it
Event(step, h) == [item |-> idx, step |-> step, handler |-> h]

InitConvert ==
  /\ args \in [INPUT : SeqsUpTo(Tokens, MaxInputs),
               no_log_file : BOOLEAN,
               log_to : LogToValues]
  /\ pc = "start"
  /\ idx = 0
  /\ root_name = None
  /\ abs_input_path = None
  /\ fileHandler = None
  /\ files = <<>>
  /\ trace = <<>>
  /\ ContentIdle
  /\ MetaIdle
  /\ ZipIdle

\* lines 75-79
ConfigLogging ==
  /\ pc = "start"
  /\ fileHandler' = config_logging(args)
  /\ files' = IF fileHandler' = None THEN files ELSE Opened(files, fileHandler')
  /\ trace' = Append(trace, Event("config_logging", fileHandler'))
  /\ pc' = "for"
  /\ UNCHANGED <<args, idx, root_name, abs_input_path>>

\* line 88
ForInput ==
  /\ pc = "for"
  /\ IF NextItem(idx) \in 1..Len(args.INPUT)
     THEN idx' = NextItem(idx) /\ pc' = "rebase_temp"
     ELSE idx' = idx /\ pc' = "done"
  /\ UNCHANGED <<args, root_name, abs_input_path, fileHandler, files, trace>>

\* lines 90-94
RebaseTemp ==
  /\ pc = "rebase_temp"
  /\ IF PerInputLog(args)
     THEN /\ fileHandler' = TempLog
          /\ files' = Opened(files, TempLog)
          /\ trace' = Append(trace, Event("rebase_temp", fileHandler'))
     ELSE UNCHANGED <<fileHandler, files, trace>>
  /\ pc' = "info"
  /\ UNCHANGED <<args, idx, root_name, abs_input_path>>

\* line 96
LogConverting ==
  /\ pc = "info"
  /\ files' = IF fileHandler = None THEN files
              ELSE [files EXCEPT ![fileHandler] = @ \cup {idx}]
  /\ pc' = "classify"
  /\ UNCHANGED <<args, idx, root_name, abs_input_path, fileHandler, trace>>

\* lines 99-109
ClassifyInput ==
  /\ pc = "classify"
  /\ LET inpt == args.INPUT[idx]
         kind == Classify(inpt)
     IN  \/ /\ kind = "xml"
            /\ root_name' = file_root_name(inpt)
            /\ abs_input_path' = get_absolute_path(inpt)
            /\ pc' = "move"
            /\ trace' = Append(trace, Event("xml", fileHandler))
         \/ /\ kind = "doi"
            /\ root_name' = doi_input(inpt)
            /\ abs_input_path' = join(current_dir, root_name' \o ".xml")
            /\ pc' = "move"
            /\ trace' = Append(trace, Event("doi", fileHandler))
         \/ /\ kind = "url"
            /\ root_name' = url_input(inpt)
            /\ abs_input_path' = join(current_dir, root_name' \o ".xml")
            /\ pc' = "move"
            /\ trace' = Append(trace, Event("url", fileHandler))
         \/ \* the resolution of the input raises
            /\ kind \in {"xml", "doi", "url"}
            /\ pc' = "raised"
            /\ trace' = Append(trace, Event(kind \o "_raised", fileHandler))
            /\ UNCHANGED <<root_name, abs_input_path>>
         \/ /\ kind = "exit"
            /\ pc' = "exit"
            /\ trace' = Append(trace, Event("sys.exit", fileHandler))
            /\ UNCHANGED <<root_name, abs_input_path>>
  /\ UNCHANGED <<args, idx, fileHandler, files>>

\* lines 111-115
MoveLog ==
  /\ pc = "move"
  /\ IF PerInputLog(args)
     THEN IF TempLog \in DOMAIN files
          THEN /\ files' = Moved(files, TempLog,
                                 LogPath(abs_input_path, root_name))
               /\ trace' = Append(trace, Event("move", fileHandler))
               /\ pc' = "rebase_final"
          ELSE /\ pc' = "raised"
               /\ trace' = Append(trace, Event("move_raised", fileHandler))
               /\ UNCHANGED files
     ELSE /\ pc' = "article"
          /\ UNCHANGED <<files, trace>>
  /\ UNCHANGED <<args, idx, root_name, abs_input_path, fileHandler>>

\* lines 117-120
RebaseFinal ==
  /\ pc = "rebase_final"
  /\ fileHandler' = LogPath(abs_input_path, root_name)
  /\ files' = Opened(files, fileHandler')
  /\ trace' = Append(trace, Event("rebase_final", fileHandler'))
  /\ pc' = "article"
  /\ UNCHANGED <<args, idx, root_name, abs_input_path>>

\* lines 123-124
ConstructArticle ==
  /\ pc = "article"
  /\ \/ /\ pc' = "for"
        /\ trace' = Append(trace, Event("Article", fileHandler))
     \/ \* the XML is malformed or DTD validation fails
        /\ pc' = "raised"
        /\ trace' = Append(trace, Event("Article_raised", fileHandler))
  /\ UNCHANGED <<args, idx, root_name, abs_input_path, fileHandler, files>>

NextConvert ==
  \/ ConfigLogging /\ UNCHANGED exceptConvert
  \/ ForInput /\ UNCHANGED exceptConvert
  \/ RebaseTemp /\ UNCHANGED exceptConvert
  \/ LogConverting /\ UNCHANGED exceptConvert
  \/ ClassifyInput /\ UNCHANGED exceptConvert
  \/ MoveLog /\ UNCHANGED exceptConvert
  \/ RebaseFinal /\ UNCHANGED exceptConvert
  \/ ConstructArticle /\ UNCHANGED exceptConvert

SpecConvert == InitConvert /\ [][NextConvert]_vars

(***************************************************************************)
(* Properties of the convert command.                                      *)
(***************************************************************************)
\* the branch a classification step of the trace stands for
StepRoute(step) ==
  CASE step \in {"xml", "xml_raised"} -> "xml"
    [] step \in {"doi", "doi_raised"} -> "doi"
    [] step \in {"url", "url_raised"} -> "url"
    [] step = "sys.exit" -> "exit"
    [] OTHER -> "none"

\* the routing the documentation gives: the prefix decides first
DocumentedRoute(inpt) ==
  IF StartsWith(Lower(inpt), "doi:") THEN "doi"
  ELSE IF StartsWith(Lower(inpt), "http:") THEN "url"
  ELSE IF EndsWith(Lower(inpt), ".xml") THEN "xml"
  ELSE "exit"

\* C1: every INPUT token is routed by its literal form: a doi: prefix goes to
\* DOI resolution, an http: prefix goes to URL resolution even when the token
\* also ends in .xml, a .xml suffix with neither prefix goes to direct file
\* handling, and anything else ends the process with a usage error.
C1_RoutedByPrefix ==
  \A p \in 1..Len(trace) :
    StepRoute(trace[p].step) # "none"
      => StepRoute(trace[p].step) = DocumentedRoute(args.INPUT[trace[p].item])

\* C2: when main ends otherwise than by a usage error, every item of the
\* INPUT list has been processed, also the items after one that failed.
C2_LaterItemsProcessed ==
  pc \in {"done", "raised"}
    => \A k \in 1..Len(args.INPUT) :
         \E p \in 1..Len(trace) : trace[p].item = k

\* C3: config_logging runs exactly once, before any item; the items are
\* processed in list order, one at a time: a step of item k+1 is only ever
\* taken after the Article of item k was constructed, and no step of an item
\* is taken twice.
C3_InOrderOneAtATime ==
  /\ pc # "start" => /\ Len(trace) >= 1
                     /\ trace[1].step = "config_logging"
                     /\ trace[1].item = 0
  /\ \A p \in 2..Len(trace) :
       /\ trace[p].step # "config_logging"
       /\ trace[p].item \in 1..Len(args.INPUT)
       /\ \/ trace[p].item = trace[p - 1].item
          \/ /\ trace[p].item = trace[p - 1].item + 1
             /\ trace[p - 1].step \in {"config_logging", "Article"}
  /\ \A p, q \in 1..Len(trace) :
       (trace[p].item = trace[q].item /\ trace[p].step = trace[q].step)
         => p = q
  /\ idx \in 0..Len(args.INPUT)
  /\ \A p \in 1..Len(trace) : trace[p].item <= idx

\* both items of a two-item list were processed to the end
C3_Witness ==
  /\ pc = "done"
  /\ Len(args.INPUT) = 2
  /\ \E p \in 1..Len(trace) : trace[p].item = 2 /\ trace[p].step = "Article"
  /\ \E p \in 1..Len(trace) : trace[p].item = 1 /\ trace[p].step = "Article"

\* C4: with per-input file logging, whenever the Article of an item is
\* constructed, the four steps before it were, in this order and for this
\* item: the rebase to temp.log, the classification, the move of temp.log,
\* the rebase to the item's log; and when main is about to construct the
\* Article, the active file log is <root-name>.log in the directory of the
\* resolved XML file, and holds the item's records written to temp.log.
C4_LogBeforeArticle ==
  PerInputLog(args) =>
    /\ \A p \in 1..Len(trace) :
         trace[p].step \in {"Article", "Article_raised"} =>
           /\ p >= 5
           /\ \A d \in 1..4 : trace[p - d].item = trace[p].item
           /\ trace[p - 4].step = "rebase_temp"
           /\ trace[p - 4].handler = TempLog
           /\ trace[p - 3].step \in {"xml", "doi", "url"}
           /\ trace[p - 2].step = "move"
           /\ trace[p - 1].step = "rebase_final"
           /\ trace[p].handler = trace[p - 1].handler
           /\ trace[p].handler # TempLog
    /\ pc = "article" =>
         /\ fileHandler
              = dirname(abs_input_path) \o "/" \o root_name \o ".log"
         /\ getFileRoot(fileHandler) = root_name
         /\ dirname(fileHandler) = dirname(abs_input_path)
         /\ fileHandler \in DOMAIN files
         /\ idx \in files[fileHandler]

\* main is about to construct the Article of a file given with a directory,
\* the second item of the list
C4_Witness ==
  /\ PerInputLog(args)
  /\ pc = "article"
  /\ idx = 2
  /\ args.INPUT[idx] = "d/A.XML"
  /\ fileHandler = "/cwd/d/A.log"

\* C5: with --log-to FILE or --no-log-file, main never calls
\* replace_filehandler and never creates or moves temp.log: the file handler
\* config_logging set up is the one of every later step.
C5_NoRebase ==
  (args.no_log_file \/ args.log_to # None) =>
    /\ \A p \in 1..Len(trace) :
         /\ trace[p].step
              \notin {"rebase_temp", "move", "move_raised", "rebase_final"}
         /\ trace[p].handler = trace[1].handler
    /\ pc # "start" => fileHandler = trace[1].handler
    /\ TempLog \notin DOMAIN files

\* a two-item run with --log-to that went through both items
C5_Witness ==
  /\ args.log_to # None
  /\ ~args.no_log_file
  /\ pc = "done"
  /\ Len(args.INPUT) = 2
  /\ \E p \in 1..Len(trace) : trace[p].item = 2 /\ trace[p].step = "Article"
  /\ files[args.log_to] = {1, 2}

\* main has ended: the for loop is over, sys.exit was called, or an
\* exception left main
Terminated == pc \in {"done", "exit", "raised"}

\* C30: whenever main has ended with per-input file logging (neither
\* --no-log-file nor --log-to), also when it ended by the usage error on
\* an unrecognized token, temp.log has been moved to a per-input log: no
\* temp.log is left on disk and the active file handler does not write to
\* temp.log.
C30_TempLogMoved ==
  (PerInputLog(args) /\ Terminated) =>
    /\ TempLog \notin DOMAIN files
    /\ fileHandler # TempLog

\* what main does: when it ends with the for loop exhausted no temp.log is
\* left; when it ends by sys.exit or by an exception of the input
\* resolution, temp.log is on disk with the record of the item, and is the
\* file of the active handler
TempLogMovedUnlessCutShort ==
  (PerInputLog(args) /\ Terminated) =>
    LET cut == trace[Len(trace)].step \in {"sys.exit", "xml_raised", "doi_raised", "url_raised"}
    IN  /\ cut <=> (TempLog \in DOMAIN files /\ fileHandler = TempLog)
        /\ cut => idx \in files[TempLog]
        /\ ~cut => (TempLog \notin DOMAIN files /\ fileHandler # TempLog)

\* main ended by the usage error on the second token, after a first item
\* that went through
UsageErrorLeavesTempLog ==
  /\ PerInputLog(args)
  /\ pc = "exit"
  /\ idx = 2
  /\ args.INPUT[2] = "ftp://x"
  /\ fileHandler = TempLog
  /\ files[TempLog] = {2}

(***************************************************************************)
(* xml.dom.minidom: the nodes of all documents live in one heap, a         *)
(* sequence of nodes; a node id is its position, 0 is Python's None.       *)
(* A node: tag (tagName, "#text" for a text node), attrs (name -> value),  *)
(* kids (childNodes), parent (parentNode), data (of a text node).          *)
(***************************************************************************)
NoAttrs == <<>>

\* Document.createElement(tag): the node, not yet in the heap
Element(tag) ==
  [tag |-> tag, attrs |-> NoAttrs, kids |-> <<>>, parent |-> 0, data |-> ""]

\* Document.createTextNode(data): the node, not yet in the heap
TextNode(data) ==
  [tag |-> "#text", attrs |-> NoAttrs, kids |-> <<>>, parent |-> 0,
   data |-> data]

\* the id the next created node gets
NewId(h) == Len(h) + 1

\* the position of x in sequence s (list.index), 0 if it is not in s
IndexOf(s, x) ==
  IF \E i \in 1..Len(s) : s[i] = x
  THEN CHOOSE i \in 1..Len(s) : s[i] = x /\ \A j \in 1..(i - 1) : s[j] # x
  ELSE 0

\* s without its element at position i
RemoveAt(s, i) == SubSeq(s, 1, i - 1) \o SubSeq(s, i + 1, Len(s))

\* s with x inserted so that it gets position i
InsertAt(s, i, x) == SubSeq(s, 1, i - 1) \o <<x>> \o SubSeq(s, i, Len(s))

\* Node.nextSibling
nextSibling(h, n) ==
  IF h[n].parent = 0 THEN 0
  ELSE LET ks == h[h[n].parent].kids
           i == IndexOf(ks, n)
       IN  IF i = 0 \/ i = Len(ks) THEN 0 ELSE ks[i + 1]

\* Node.firstChild
firstChild(h, n) == IF h[n].kids = <<>> THEN 0 ELSE h[n].kids[1]

\* n taken out of the child list of its parent, if it has one
Detached(h, n) ==
  IF h[n].parent = 0 THEN h
  ELSE LET par == h[n].parent
       IN  [h EXCEPT ![par].kids = RemoveAt(@, IndexOf(@, n)),
                     ![n].parent = 0]

\* Node.appendChild(n) on par
appendChild(h, par, n) ==
  LET h1 == Detached(h, n)
  IN  [h1 EXCEPT ![par].kids = Append(@, n), ![n].parent = par]

\* whether Node.insertBefore(n, ref) on par raises: ref is no child of par
insertBeforeRaises(h, par, ref) ==
  ref # 0 /\ IndexOf(h[par].kids, ref) = 0

\* Node.insertBefore(n, ref) on par; ref = 0 (None) appends
insertBefore(h, par, n, ref) ==
  IF ref = 0 THEN appendChild(h, par, n)
  ELSE LET h1 == Detached(h, n)
       IN  [h1 EXCEPT ![par].kids = InsertAt(@, IndexOf(@, ref), n),
                      ![n].parent = par]

\* Node.removeChild(n) on par (n is a child of par)
removeChild(h, par, n) == Detached(h, n)

\* Element.hasAttribute
hasAttribute(h, n, name) == name \in DOMAIN h[n].attrs

\* Element.getAttribute: "" when the attribute is missing
getAttribute(h, n, name) ==
  IF hasAttribute(h, n, name) THEN h[n].attrs[name] ELSE ""

\* Element.setAttribute
setAttribute(h, n, name, value) ==
  [h EXCEPT ![n].attrs = (name :> value) @@ @]

\* Element.removeAttribute of an attribute the element has (it raises
\* NotFoundErr when the element does not have it)
removeAttribute(h, n, name) ==
  [h EXCEPT ![n].attrs = [a \in (DOMAIN @) \ {name} |-> @[a]]]

\* `try: removeAttribute(name) except: pass`
tryRemoveAttribute(h, n, name) ==
  IF hasAttribute(h, n, name) THEN removeAttribute(h, n, name) ELSE h

\* node.tagName = tag
setTagName(h, n, tag) == [h EXCEPT ![n].tag = tag]

RECURSIVE DescendantsOf(_, _)
\* the descendants of the nodes ks and the nodes themselves, in document
\* order
DescendantsOf(h, ks) ==
  IF ks = <<>> THEN <<>>
  ELSE <<Head(ks)>> \o DescendantsOf(h, h[Head(ks)].kids)
         \o DescendantsOf(h, Tail(ks))

\* the nodes below n, in document order
Descendants(h, n) == DescendantsOf(h, h[n].kids)

\* the elements of s that are in keep, in the order of s
Filter(s, keep) == SelectSeq(s, LAMBDA x : x \in keep)

\* Element.getElementsByTagName(tag): a list made when it is called
getElementsByTagName(h, n, tag) ==
  Filter(Descendants(h, n), {k \in 1..Len(h) : h[k].tag = tag})

RECURSIVE Renamed(_, _, _)
\* `for x in nodes: x.tagName = tag`
Renamed(h, nodes, tag) ==
  IF nodes = <<>> THEN h
  ELSE Renamed(setTagName(h, Head(nodes), tag), Tail(nodes), tag)

\* `for x in root.getElementsByTagName(from): x.tagName = to`
RenameAll(h, root, from, to) ==
  Renamed(h, getElementsByTagName(h, root, from), to)

\* `for item in ks: par.appendChild(item.cloneNode(deep = True))`: the
\* copies of the nodes ks and of what is below them get the ids after
\* Len(h), in document order
CloneKids(h, ks, par) ==
  LET olds == DescendantsOf(h, ks)
      CopyOf(old) == Len(h) + IndexOf(olds, old)
      copies == [i \in 1..Len(olds) |->
                   [h[olds[i]] EXCEPT
                      !.parent = IF IndexOf(ks, olds[i]) # 0 THEN par
                                 ELSE CopyOf(@),
                      !.kids = [j \in 1..Len(@) |-> CopyOf(@[j])]]]
      h1 == h \o copies
  IN  IF par = 0 THEN h1
      ELSE [h1 EXCEPT ![par].kids =
                        @ \o [i \in 1..Len(ks) |-> CopyOf(ks[i])]]

\* h with n.cloneNode(deep = True) added as the last child of par
CloneInto(h, n, par) == CloneKids(h, <<n>>, par)

(***************************************************************************)
(* Document literals: a tree is a record [tag, attrs, kids, data] whose    *)
(* kids are trees.                                                         *)
(***************************************************************************)
El(tag, attrs, kids) == [tag |-> tag, attrs |-> attrs, kids |-> kids, data |-> ""]
Tx(data) == [tag |-> "#text", attrs |-> NoAttrs, kids |-> <<>>, data |-> data]

RECURSIVE FlatKids(_, _, _)
RECURSIVE FlatTree(_, _, _)
\* the nodes of tree t in document order, the first with the id base + 1
\* and the parent par
FlatTree(t, par, base) ==
  <<[tag |-> t.tag, attrs |-> t.attrs, parent |-> par, data |-> t.data]>>
    \o FlatKids(t.kids, base + 1, base + 1)
FlatKids(ts, par, base) ==
  IF ts = <<>> THEN <<>>
  ELSE LET first == FlatTree(Head(ts), par, base)
       IN  first \o FlatKids(Tail(ts), par, base + Len(first))

\* h with the nodes of the trees ts added, their roots as the last children
\* of par (par = 0: without a parent); the nodes get the ids after Len(h),
\* in document order
AddKids(h, ts, par) ==
  LET flat == FlatKids(ts, par, Len(h))
      ids == [k \in 1..Len(flat) |-> Len(h) + k]
      new == [k \in 1..Len(flat) |->
                [tag |-> flat[k].tag, attrs |-> flat[k].attrs,
                 kids |-> SelectSeq(ids, LAMBDA j :
                                      flat[j - Len(h)].parent = Len(h) + k),
                 parent |-> flat[k].parent, data |-> flat[k].data]]
      h1 == h \o new
  IN  IF par = 0 THEN h1
      ELSE [h1 EXCEPT ![par].kids =
                        @ \o SelectSeq(ids, LAMBDA j :
                                         flat[j - Len(h)].parent = par)]

\* h with the nodes of tree t added; the root gets the id NewId(h)
AddTree(h, t, par) == AddKids(h, <<t>>, par)

RECURSIVE TreesOf(_, _)
RECURSIVE TreeOf(_, _)
\* the tree below node n: what toprettyxml writes of it
TreeOf(h, n) ==
  [tag |-> h[n].tag, attrs |-> h[n].attrs, kids |-> TreesOf(h, h[n].kids),
   data |-> h[n].data]
TreesOf(h, ks) ==
  IF ks = <<>> THEN <<>>
  ELSE <<TreeOf(h, Head(ks))>> \o TreesOf(h, Tail(ks))

RECURSIVE TreeTagsOf(_)
RECURSIVE TreeTags(_)
\* the tag names of the elements of a tree
TreeTags(t) == {t.tag} \cup TreeTagsOf(t.kids)
TreeTagsOf(ts) ==
  IF ts = <<>> THEN {} ELSE TreeTags(Head(ts)) \cup TreeTagsOf(Tail(ts))

(***************************************************************************)
(* utils helpers the content generator calls.                              *)
(***************************************************************************)
\* the result of a step that may raise: the heap it leaves, its value, and
\* the exception it raised (None: it returned)
Ok(h, v) == [h |-> h, v |-> v, err |-> None]
Raise(h, e) == [h |-> h, v |-> None, err |-> e]

RECURSIVE TagDataLoop(_, _, _)
\* the for loop of getTagData: the data of the last node of the list whose
\* first child is a text node; a node without children has firstChild None,
\* and None.nodeType raises AttributeError
TagDataLoop(h, nodes, data) ==
  IF nodes = <<>> THEN Ok(h, data)
  ELSE LET fc == firstChild(h, Head(nodes))
       IN  IF fc = 0 THEN Raise(h, "AttributeError")
           ELSE IF h[fc].tag = "#text"
                THEN TagDataLoop(h, Tail(nodes), h[fc].data)
                ELSE TagDataLoop(h, Tail(nodes), data)

\* utils.getTagData(node_list)
getTagData(h, nodes) == TagDataLoop(h, nodes, "")

\* utils.getText(node): the text of the node
getText(h, n) ==
  LET fc == firstChild(h, n)
  IN  IF fc # 0 /\ h[fc].tag = "#text" THEN h[fc].data ELSE ""

\* s.split(c)[-1] for a one-character c
LastSegment(s, c) == SubSeq(s, RFind(s, c) + 1, Len(s))

\* s.split(c)[0] for a one-character c
FirstSegment(s, c) ==
  LET hits == {i \in 1..Len(s) : SubSeq(s, i, i) = c}
  IN  IF hits = {} THEN s
      ELSE SubSeq(s, 1, (CHOOSE i \in hits : \A j \in hits : i <= j) - 1)

RECURSIVE WalkLoop(_, _, _)
\* the os.walk loops of createMain: every file whose name without extension
\* equals name is assigned to img in turn, so the last one met stays
WalkLoop(walk, name, img) ==
  IF walk = <<>> THEN img
  ELSE WalkLoop(Tail(walk), name,
                IF splitext0(basename(Head(walk))) = name THEN Head(walk)
                ELSE img)

\* the image lookup: img = None, then the walk of OPS/images
FindImage(walk, name) == WalkLoop(walk, name, None)

(***************************************************************************)
(* OPSContent.initiateDocument                                             *)
(***************************************************************************)
XHTML_PUBLIC_ID == "-//W3C//DTD XHTML 1.1//EN"

\* the document initiateDocument builds
DocShell(titlestring) ==
  El("#document", ("doctype" :> XHTML_PUBLIC_ID),
     << El("html",
           ("xmlns" :> "http://www.w3.org/1999/xhtml")
             @@ ("xml:lang" :> "en-US"),
           << El("head", NoAttrs,
                 << El("title", NoAttrs, <<Tx(titlestring)>>),
                    El("link", ("rel" :> "stylesheet")
                                 @@ ("href" :> "css/article.css")
                                 @@ ("type" :> "text/css"), <<>>),
                    El("meta", ("http-equiv" :> "Content-Type")
                                 @@ ("content" :> "application/xhtml+xml"),
                       <<>>) >>),
              El("body", NoAttrs, <<>>) >>) >>)

\* initiateDocument(titlestring): the heap with the new document; the
\* document gets the id NewId(h)
initiateDocument(h, titlestring) == AddTree(h, DocShell(titlestring), 0)

\* the body element of the document initiateDocument made with id d
BodyOf(d) == d + 7

(***************************************************************************)
(* OPSContent.createMain, statement by statement.  Each step is an         *)
(* operator from the heap to the result of the step.                       *)
(***************************************************************************)
\* h with a new node added; the node gets the id NewId(h)
Created(h, node) == Append(h, node)

\* h with a new element `tag` holding one new text node; the element gets
\* the id NewId(h)
CreatedWithText(h, tag, text) ==
  LET e == NewId(h)
      h1 == Created(Created(h, Element(tag)), TextNode(text))
  IN  appendChild(h1, e, e + 1)

\* h with a new node added as the last child of par; it gets the id NewId(h)
WithChild(h, par, node) == appendChild(Created(h, node), par, NewId(h))

\* par.appendChild(createTextNode(text))
WithText(h, par, text) == WithChild(h, par, TextNode(text))

RECURSIVE SecLoop(_, _)
\* lines 222-227: every <sec> becomes <div>, its sec-type is dropped
SecLoop(h, secs) ==
  IF secs = <<>> THEN h
  ELSE SecLoop(tryRemoveAttribute(setTagName(h, Head(secs), "div"),
                                  Head(secs), "sec-type"),
               Tail(secs))

\* divTitleScan's taglist
taglist == <<"h2", "h3", "h4", "h5", "h6">>

RECURSIVE divTitleScanLoop(_, _, _)
\* the for loop of divTitleScan over the child nodes ks of fromnode; depth
\* counts from 0.  A node without tagName (a text node) raises the
\* AttributeError the loop swallows; [0] on an empty list and
\* taglist[depth] beyond the list raise IndexError, which it does not.
divTitleScanLoop(h, ks, depth) ==
  IF ks = <<>> THEN Ok(h, None)
  ELSE LET item == Head(ks)
       IN  IF h[item].tag # "div" THEN divTitleScanLoop(h, Tail(ks), depth)
           ELSE LET titles == getElementsByTagName(h, item, "title")
                IN  IF titles = <<>> \/ depth >= Len(taglist)
                    THEN Raise(h, "IndexError")
                    ELSE LET h1 == setTagName(h, titles[1], taglist[depth + 1])
                             r == divTitleScanLoop(h1, h1[item].kids, depth + 1)
                         IN  IF r.err # None THEN r
                             ELSE divTitleScanLoop(r.h, Tail(ks), depth)

\* divTitleScan(fromnode, depth)
divTitleScan(h, fromnode, depth) == divTitleScanLoop(h, h[fromnode].kids, depth)

\* lines 238-273: one <fig>
FigStep(h, walk, item) ==
  LET parent == h[item].parent
      sibling == nextSibling(h, item)
      fid == getAttribute(h, item, "id")
      lab == getTagData(h, getElementsByTagName(h, item, "label"))
  IN  IF lab.err # None THEN Raise(h, lab.err)
      ELSE
      LET img == FindImage(walk, LastSegment(fid, "-"))
          imgnode == NewId(h)
          h1 == Created(h, [Element("img") EXCEPT
                              !.attrs = ("src" :> img) @@ ("id" :> fid)
                                          @@ ("alt" :> "A Figure")])
          h2 == insertBefore(h1, parent, imgnode, sibling)
          caps == getElementsByTagName(h2, item, "caption")
      IN  IF caps = <<>> THEN Raise(h2, "IndexError")
          ELSE
          LET caption == caps[1]
              h3 == setAttribute(setTagName(h2, caption, "div"),
                                 caption, "class", "caption")
              bold_label_text == NewId(h3)
              h4 == CreatedWithText(h3, "b", lab.v \o ".")
              h5 == insertBefore(h4, caption, bold_label_text,
                                 firstChild(h4, caption))
              h6 == Renamed(h5, getElementsByTagName(h5, caption, "title"),
                            "b")
              h7 == insertBefore(h6, parent, caption, sibling)
          IN  Ok(removeChild(h7, parent, item), None)

\* lines 314-323: the try block that moves the HTML table of the
\* table-wrap into the Tables document table_doc and links it; [0] on an
\* empty list and removeAttribute of a missing attribute raise, and
\* `except: pass` ends the block there.  The value: whether a link was made.
HtmlTableTry(h, table_doc, item, parent, sibling, name, label_text) ==
  LET tabs == getElementsByTagName(h, item, "table")
  IN  IF tabs = <<>> \/ ~hasAttribute(h, tabs[1], "alternate-form-of")
      THEN Ok(h, FALSE)
      ELSE
      LET html_table == tabs[1]
          h1 == RenameAll(
                  setAttribute(
                    removeAttribute(h, html_table, "alternate-form-of"),
                    html_table, "id", "h" \o name),
                  html_table, "bold", "b")
          link == NewId(h)
          h2 == setAttribute(
                  CreatedWithText(appendChild(h1, BodyOf(table_doc),
                                              html_table),
                                  "a", "HTML version of " \o label_text),
                  link, "href", "tables.xml#h" \o name)
      IN  Ok(insertBefore(h2, parent, link, sibling), TRUE)

\* lines 312-325: the new Tables document, then the try block.  The value:
\* the Tables document and whether a link was made.
HtmlTableStep(h, item, parent, sibling, name, label_text) ==
  LET table_doc == NewId(h)
      r == HtmlTableTry(initiateDocument(h, "HTML Versions of Tables"),
                        table_doc, item, parent, sibling, name, label_text)
  IN  [r EXCEPT !.v = [table_doc |-> table_doc, linked |-> @]]

\* lines 286-293: the label block, placed before sibling; it gets the id
\* NewId(h)
TableLabelStep(h, parent, sibling, table_id, label_text, title_text) ==
  LET table_label == NewId(h)
      table_label_b == table_label + 1
      h1 == CreatedWithText(
              Created(h, [Element("div") EXCEPT
                            !.attrs = ("class" :> "table_label")
                                        @@ ("id" :> table_id)]),
              "b", label_text)
      h2 == WithText(appendChild(h1, table_label, table_label_b),
                     table_label, title_text)
  IN  insertBefore(h2, parent, table_label, sibling)

\* lines 295-310: the image tag, placed before sibling; it gets the id
\* NewId(h)
TableImgStep(h, walk, parent, sibling, name) ==
  insertBefore(
    Created(h, [Element("img") EXCEPT
                  !.attrs = ("src" :> FindImage(walk, name))
                              @@ ("alt" :> "A Table")]),
    parent, NewId(h), sibling)

\* line 327 and the value of the iteration: r is the result of the HTML
\* table step
TableWrapEnd(r, parent, item, table_label, imgnode) ==
  Ok(removeChild(r.h, parent, item),
     [table_doc |-> r.v.table_doc, linked |-> r.v.linked,
      table_label |-> table_label, imgnode |-> imgnode])

\* lines 295-327 on the heap h that has the label block
TableWrapRest(h, walk, item, parent, sibling, name, label_text, table_label) ==
  TableWrapEnd(
    HtmlTableStep(TableImgStep(h, walk, parent, sibling, name), item, parent,
                  sibling, name, label_text),
    parent, item, table_label, NewId(h))

\* lines 279-327: one <table-wrap>
TableWrapStep(h, walk, item) ==
  LET parent == h[item].parent
      sibling == nextSibling(h, item)
      table_id == getAttribute(h, item, "id")
      labels == getElementsByTagName(h, item, "label")
      title == getTagData(h, getElementsByTagName(h, item, "title"))
  IN  IF labels = <<>> THEN Raise(h, "IndexError")
      ELSE IF title.err # None THEN Raise(h, title.err)
      ELSE TableWrapRest(
             TableLabelStep(h, parent, sibling, table_id,
                            getText(h, labels[1]), title.v),
             walk, item, parent, sibling, LastSegment(table_id, "-"),
             getText(h, labels[1]), NewId(h))

\* lines 338-347: dest after the if/elif chain (it keeps its value, or
\* stays unbound, when no branch matches)
XrefDest(dest, ref_type, refid) ==
  IF ref_type = "bibr" THEN "biblio.xml#" \o refid
  ELSE IF ref_type \in {"fig", "supplementary-material", "table"}
  THEN "main.xml#" \o refid
  ELSE IF ref_type = "aff" THEN "synop.xml#" \o refid
  ELSE dest

\* lines 335-350: one <xref>; dest is the local variable as the earlier
\* iterations left it (None: unbound).  The value: dest afterwards.
XrefStep(h, dest, elem) ==
  LET h1 == setTagName(h, elem, "a")
      ref_type == getAttribute(h1, elem, "ref-type")
      refid == getAttribute(h1, elem, "rid")
      dest1 == XrefDest(dest, ref_type, refid)
  IN  IF ~hasAttribute(h1, elem, "ref-type") \/ ~hasAttribute(h1, elem, "rid")
      THEN Raise(h1, "NotFoundErr")
      ELSE IF dest1 = None THEN Raise(h1, "UnboundLocalError")
      ELSE Ok(setAttribute(
                removeAttribute(removeAttribute(h1, elem, "ref-type"),
                                elem, "rid"),
                elem, "href", dest1),
              dest1)

\* lines 359-379: one <inline-formula>
InlineStep(h, walk, each) ==
  LET parent == h[each].parent
      sibling == nextSibling(h, each)
      graphics == getElementsByTagName(h, each, "inline-graphic")
  IN  IF graphics = <<>> THEN Raise(h, "IndexError")
      ELSE
      LET name == LastSegment(getAttribute(h, graphics[1], "xlink:href"), ".")
          img == FindImage(walk, name)
          imgnode == NewId(h)
          h1 == Created(h, [Element("img") EXCEPT
                              !.attrs = ("src" :> img)
                                          @@ ("alt" :> "An inline formula")])
      IN  Ok(removeChild(insertBefore(h1, parent, imgnode, sibling),
                         parent, each),
             None)

RECURSIVE AppendAll(_, _, _)
\* `for child in nodes: par.appendChild(child)`
AppendAll(h, par, nodes) ==
  IF nodes = <<>> THEN h
  ELSE AppendAll(appendChild(h, par, Head(nodes)), par, Tail(nodes))

\* lines 388-429: one <disp-formula>.  In the branch of a parent without a
\* next sibling the names disp_p_node_ and newparent are bound nowhere.
DispStep(h, walk, disp) ==
  LET parent == h[disp].parent
      sibling == nextSibling(h, disp)
      new_parent == IF sibling # 0 THEN NewId(h) ELSE 0
      h1 == IF sibling # 0
            THEN LET ks == h[parent].kids
                     h0 == Created(h, Element("p"))
                 IN  AppendAll(h0, new_parent,
                               SubSeq(ks, IndexOf(ks, disp) + 1, Len(ks)))
            ELSE h
      grandparent == h1[parent].parent
      parent_sib == nextSibling(h1, parent)
  IN  IF parent_sib = 0 THEN Raise(h1, "NameError")
      ELSE
      LET disp_p_node == NewId(h1)
          h2 == insertBefore(Created(h1, Element("p")), grandparent,
                             disp_p_node, parent_sib)
          h3 == IF new_parent # 0
                THEN insertBefore(h2, grandparent, new_parent, parent_sib)
                ELSE h2
          graphics == getElementsByTagName(h3, disp, "graphic")
      IN  IF graphics = <<>> THEN Raise(h3, "IndexError")
          ELSE
          LET name == LastSegment(
                        getAttribute(h3, graphics[1], "xlink:href"), ".")
              img == FindImage(walk, name)
              imgnode == NewId(h3)
              h4 == Created(h3, [Element("img") EXCEPT
                                   !.attrs = ("src" :> img)
                                               @@ ("alt" :> "A display formula")])
          IN  Ok(removeChild(appendChild(h4, disp_p_node, imgnode),
                             parent, disp),
                 None)

\* lines 448-466: the tag a list-type gives
ListTag(list_type) ==
  IF list_type \in {"order", "alpha-lower", "alpha-upper", "roman-lower",
                    "roman-upper"}
  THEN "ol"
  ELSE "ul"

\* lines 433-483: one <list>.  The first try block sets the title attribute
\* unless getTagData raises, and its removeChild('title') always raises.
ListStep(h, list) ==
  LET title == getTagData(h, getElementsByTagName(h, list, "title"))
      h1 == IF title.err = None THEN setAttribute(h, list, "title", title.v)
            ELSE h
      list_type == getAttribute(h1, list, "list-type")
      h2 == setTagName(h1, list, ListTag(list_type))
      h3 == IF list_type = "simple"
            THEN setAttribute(h2, list, "style", "simple") ELSE h2
      h4 == Renamed(h3, getElementsByTagName(h3, list, "list-item"), "li")
  IN  Ok(tryRemoveAttribute(
           tryRemoveAttribute(tryRemoveAttribute(h4, list, "list-content"),
                              list, "list-type"),
           list, "prefix-word"),
         None)

\* plos_jrns (lines 509-515)
plos_jrns ==
  ("pgen" :> "http://www.plosgenetics.org/")
    @@ ("pone" :> "http://www.plosone.org/")
    @@ ("pbio" :> "http://www.plosbiology.org/")
    @@ ("pcbi" :> "http://www.ploscompbiol.org/")
    @@ ("ppat" :> "http://www.plospathogens.org/")
    @@ ("pmed" :> "http://www.plosmedicine.org/")
    @@ ("pntd" :> "http://www.plosntds.org/")

\* lines 508-526: the try block that links the label.  A missing journal
\* raises KeyError before anything is done; insertBefore raises when the
\* label is no child of the element; removeAttribute raises when there is
\* no xlink:href, after the anchor is in place.
SuppLinkStep(h, supp_mat, supp_id, label) ==
  LET jrn == FirstSegment(supp_id, ".")
  IN  IF jrn \notin DOMAIN plos_jrns THEN h
      ELSE
      LET xlink == getAttribute(h, supp_mat, "xlink:href")
          href == plos_jrns[jrn]
                    \o "article/fetchSingleRepresentation.action?uri="
                    \o xlink
          anchor == NewId(h)
          h1 == Created(h, [Element("a") EXCEPT !.attrs = ("href" :> href)])
      IN  IF insertBeforeRaises(h1, supp_mat, label) THEN h1
          ELSE tryRemoveAttribute(
                 appendChild(insertBefore(h1, supp_mat, anchor, label),
                             anchor, label),
                 supp_mat, "xlink:href")

\* lines 490-530: one <supplementary-material>
SuppStep(h, supp_mat) ==
  LET supp_id == getAttribute(h, supp_mat, "id")
      h1 == setTagName(h, supp_mat, "div")
      labels == getElementsByTagName(h1, supp_mat, "label")
  IN  IF labels = <<>> THEN Raise(h1, "IndexError")
      ELSE
      LET label == labels[1]
          h2 == setTagName(h1, label, "b")
          h3 == Renamed(h2, getElementsByTagName(h2, supp_mat, "bold"), "b")
          h4 == Renamed(h3, getElementsByTagName(h3, supp_mat, "italic"), "i")
          h5 == tryRemoveAttribute(
                  tryRemoveAttribute(h4, supp_mat, "mimetype"),
                  supp_mat, "position")
          h6 == SuppLinkStep(h5, supp_mat, supp_id, label)
      IN  Ok(tryRemoveAttribute(h6, supp_mat, "xlink:type"), None)

\* lines 534-539 (and 189-194): one <ext-link>; each removeAttribute raises
\* when the attribute is missing
ExtLinkStep(h, ext_link) ==
  LET h1 == setTagName(h, ext_link, "a")
      href == getAttribute(h1, ext_link, "xlink:href")
  IN  IF \E a \in {"ext-link-type", "xlink:href", "xlink:type"} :
           ~hasAttribute(h1, ext_link, a)
      THEN Raise(h1, "NotFoundErr")
      ELSE Ok(setAttribute(
                removeAttribute(
                  removeAttribute(
                    removeAttribute(h1, ext_link, "ext-link-type"),
                    ext_link, "xlink:href"),
                  ext_link, "xlink:type"),
                ext_link, "href", href),
              None)

\* whether a node at or below n has an attribute whose value is None
HasNoneAttr(h, n) ==
  \E k \in {n} \cup {Descendants(h, n)[i] : i \in 1..Len(Descendants(h, n))} :
    \E a \in DOMAIN h[k].attrs : h[k].attrs[a] = None

RECURSIVE WrittenTrees(_)
RECURSIVE WrittenTree(_)
\* what toprettyxml writes of a tree: an attribute whose value is None is
\* written as the empty string
WrittenTree(t) ==
  [tag |-> t.tag,
   attrs |-> [a \in DOMAIN t.attrs |->
                IF t.attrs[a] = None THEN "" ELSE t.attrs[a]],
   kids |-> WrittenTrees(t.kids),
   data |-> t.data]
WrittenTrees(ts) ==
  IF ts = <<>> THEN <<>>
  ELSE <<WrittenTree(Head(ts))>> \o WrittenTrees(Tail(ts))

\* document.toprettyxml(encoding = 'utf-8') of the document with id d
toprettyxml(h, d) == WrittenTree(TreeOf(h, d))

(***************************************************************************)
(* OPSContent.parseRef, refOther, createBiblio                             *)
(***************************************************************************)
\* the first exception among the results rs, None if none raised
FirstErr(rs) ==
  IF \E i \in 1..Len(rs) : rs[i].err # None
  THEN rs[CHOOSE i \in 1..Len(rs) :
            rs[i].err # None /\ \A j \in 1..(i - 1) : rs[j].err = None].err
  ELSE None

\* the separator parseRef puts after the name node auth (lines 598-601)
NameSeparator(h, auth) == IF nextSibling(h, auth) # 0 THEN ", " ELSE " "

RECURSIVE AuthLoop(_, _, _)
\* lines 593-602: the names of the reference, appended to ref_string
AuthLoop(h, auths, ref_string) ==
  IF auths = <<>> THEN Ok(h, ref_string)
  ELSE LET auth == Head(auths)
           surname == getTagData(h, getElementsByTagName(h, auth, "surname"))
           given == getTagData(h, getElementsByTagName(h, auth, "given-names"))
       IN  IF FirstErr(<<surname, given>>) # None
           THEN Raise(h, FirstErr(<<surname, given>>))
           ELSE AuthLoop(h, Tail(auths),
                         ref_string \o surname.v \o " " \o given.v
                           \o NameSeparator(h, auth))

\* lines 602-633: the reference string from its parts, each the result of
\* reading it (names: the label and the names so far); the first part that
\* raised ends parseRef
JournalFormat(h, names, year, art_title, source, volume, issue, fpage, lpage, has_etal, has_issue, has_lpage) ==
  LET err == FirstErr(<<names, year, art_title, source, volume, issue, fpage,
                        lpage>>)
  IN  IF err # None THEN Raise(h, err)
      ELSE Ok(h,
              names.v
                \o (IF has_etal THEN "et al. " ELSE "")
                \o "(" \o year.v \o ") "
                \o art_title.v \o " "
                \o source.v \o " "
                \o volume.v
                \o (IF has_issue THEN "(" \o issue.v \o "): " ELSE ": ")
                \o fpage.v
                \o (IF has_lpage THEN "-" \o lpage.v \o "." ELSE "."))

\* lines 587-633: the string of a reference of citation-type journal
JournalRefString(h, fromnode) ==
  LET Nodes(tag) == getElementsByTagName(h, fromnode, tag)
      Data(tag) == getTagData(h, Nodes(tag))
      label == Data("label")
  IN  IF label.err # None THEN label
      ELSE JournalFormat(
             h, AuthLoop(h, Nodes("name"), label.v \o ". "), Data("year"),
             Data("article-title"), Data("source"), Data("volume"),
             IF Nodes("issue") # <<>> THEN Data("issue") ELSE Ok(h, ""),
             Data("fpage"),
             IF Nodes("lpage") # <<>> THEN Data("lpage") ELSE Ok(h, ""),
             Nodes("etal") # <<>>, Nodes("issue") # <<>>,
             Nodes("lpage") # <<>>)

\* str.lstrip() is not empty, for the text data of the model (words, or
\* runs of blanks and line breaks)
HasText(data) ==
  \E i \in 1..Len(data) : SubSeq(data, i, i) \notin {" ", "\n", "\t"}

RECURSIVE refOtherLoop(_, _)
\* refOther: the strings appended for the nodes ks and what is below them
refOtherLoop(h, ks) ==
  IF ks = <<>> THEN ""
  ELSE LET item == Head(ks)
           ptag == h[h[item].parent].tag
           here ==
             IF h[item].tag = "#text" /\ h[item].data # "\n"
             THEN IF ~HasText(h[item].data) THEN ""
                  ELSE IF ptag = "year" THEN "(" \o h[item].data \o "), "
                  ELSE IF ptag = "source" THEN "[" \o h[item].data \o "], "
                  ELSE IF ptag = "article-title"
                  THEN "\"" \o h[item].data \o "\", "
                  ELSE h[item].data \o ", "
             ELSE refOtherLoop(h, h[item].kids)
       IN  here \o refOtherLoop(h, Tail(ks))

\* refOther(node, stringlist = [])
refOther(h, node) == refOtherLoop(h, h[node].kids)

\* ref_string[:-2]
DropLast2(str) == SubSeq(str, 1, Len(str) - 2)

\* lines 635 and 640: the text node with the reference string is put into
\* the paragraph, unless making the string raised; str is the result of
\* making the string on heap h
RefParagraph(h, ref_par, str) ==
  IF str.err # None THEN Raise(h, str.err)
  ELSE Ok(WithText(h, ref_par, str.v), ref_par)

\* lines 638-640: the string of a reference of citation-type other
OtherRefString(h, label, citation) ==
  LET lab == getTagData(h, label)
  IN  IF lab.err # None THEN lab
      ELSE Ok(h, DropLast2(lab.v \o ". " \o refOther(h, citation)))

\* lines 581-642 of parseRef on the heap h that has the paragraph ref_par
ParsedRef(h, fromnode, ref_par) ==
  LET citations == getElementsByTagName(h, fromnode, "citation")
      citation_type == getAttribute(h, citations[1], "citation-type")
  IN  IF citations = <<>> THEN Raise(h, "IndexError")
      ELSE IF citation_type = "journal"
      THEN RefParagraph(h, ref_par, JournalRefString(h, fromnode))
      ELSE IF citation_type = "other"
      THEN RefParagraph(h, ref_par,
                        OtherRefString(
                          h, getElementsByTagName(h, fromnode, "label"),
                          citations[1]))
      ELSE Ok(h, ref_par)

\* parseRef(fromnode, doc): the new paragraph gets the id NewId(h); the
\* value is the paragraph
parseRef(h, fromnode) ==
  ParsedRef(Created(h, [Element("p") EXCEPT
                          !.attrs = ("id" :> getAttribute(h, fromnode, "id"))]),
            fromnode, NewId(h))

RECURSIVE RefLoop(_, _, _, _)
\* line 561: bibbody.appendChild(r) for the result r of parseRef of the
\* first of refs, then the rest of the loop
RefNext(r, bibbody, refs, pars) ==
  IF r.err # None THEN Raise(r.h, r.err)
  ELSE RefLoop(appendChild(r.h, bibbody, r.v), bibbody, Tail(refs),
               Append(pars, [ref |-> Head(refs), par |-> r.v]))

\* lines 560-561: `for item in refs: bibbody.appendChild(parseRef(item))`;
\* the value: the paragraph made for every <ref>, in order
RefLoop(h, bibbody, refs, pars) ==
  IF refs = <<>> THEN Ok(h, pars)
  ELSE RefNext(parseRef(h, Head(refs)), bibbody, refs, pars)

\* the value of createBiblio: the Bibliography document and the paragraphs
BiblioResult(r, biblio) ==
  IF r.err # None THEN r ELSE Ok(r.h, [biblio |-> biblio, pars |-> r.v])

\* lines 555-561 on the heap h that has the Bibliography document
BiblioBody(h, biblio, back) ==
  BiblioResult(
    RefLoop(appendChild(CreatedWithText(h, "h2", "References"),
                        BodyOf(biblio), NewId(h)),
            BodyOf(biblio), getElementsByTagName(h, back, "ref"), <<>>),
    biblio)

\* lines 551-561 of createBiblio, before the file is opened; the
\* Bibliography document gets the id NewId(h)
createBiblio(h, d) ==
  LET backs == getElementsByTagName(h, d, "back")
  IN  IF backs = <<>>
      THEN Raise(initiateDocument(h, "Bibliography file"), "IndexError")
      ELSE BiblioBody(initiateDocument(h, "Bibliography file"), NewId(h),
                      backs[1])

(***************************************************************************)
(* OPSContent.createSynopsis.  The metadata object is a record of the      *)
(* fields the method reads: meta.article_meta.<field> is m.<field>, and    *)
(* back.<field> is b.<field>.                                              *)
(***************************************************************************)
\* str(n) of a small positive number
Str(n) == <<"1", "2", "3", "4", "5", "6", "7", "8", "9">>[n]

\* `sub in s` for strings
Contains(s, sub) ==
  \E i \in 1..(Len(s) - Len(sub) + 1) : SubSeq(s, i, i + Len(sub) - 1) = sub

\* the superscript links to the Main file instead
WithSupLink_main(h, container, ref, text) ==
  LET sup == NewId(h)
      aref == sup + 1
      h1 == Created(Created(h, Element("sup")),
                    [Element("a") EXCEPT
                       !.attrs = ("href" :> ("main.xml#" \o ref))])
      h2 == WithText(h1, aref, text)
  IN  appendChild(appendChild(h2, sup, aref), container, sup)

\* lines 55-62 and 63-72: <sup><a href="synop.xml#ref">text</a></sup> as the
\* last child of container
WithSupLink(h, container, ref, text) ==
  LET sup == NewId(h)
      aref == sup + 1
      h1 == Created(Created(h, Element("sup")),
                    [Element("a") EXCEPT
                       !.attrs = ("href" :> ("synop.xml#" \o ref))])
      h2 == WithText(h1, aref, text)
  IN  appendChild(appendChild(h2, sup, aref), container, sup)

RECURSIVE AffRefLoop(_, _, _, _)
\* lines 54-62: the affiliations of one author; the value is
\* affiliation_index afterwards
AffRefLoop(h, container, affs, affiliation_index) ==
  IF affs = <<>> THEN Ok(h, affiliation_index)
  ELSE LET aff == Head(affs)
           index == IF IndexOf(affiliation_index, aff) = 0
                    THEN Append(affiliation_index, aff)
                    ELSE affiliation_index
       IN  AffRefLoop(WithSupLink(h, container, aff, Str(IndexOf(index, aff))),
                      container, Tail(affs), index)

RECURSIVE ContactLoop(_, _, _)
\* lines 63-74: the contacts of one author
ContactLoop(h, container, contacts) ==
  IF contacts = <<>> THEN h
  ELSE ContactLoop(WithSupLink(h, container, Head(contacts), "*"),
                   container, Tail(contacts))

RECURSIVE AuthorLoop(_, _, _, _, _)
\* lines 46-74: `for author in authors`
AuthorLoop(h, container, authors, first, affiliation_index) ==
  IF authors = <<>> THEN h
  ELSE LET author == Head(authors)
           h1 == IF ~first THEN WithText(h, container, ", ") ELSE h
           h2 == WithText(h1, container, author.name)
           r == AffRefLoop(h2, container, author.affiliation,
                           affiliation_index)
       IN  AuthorLoop(ContactLoop(r.h, container, author.contact), container,
                      Tail(authors), FALSE, r.v)

RECURSIVE AffLineLoop(_, _, _, _)
\* lines 80-86: `for item in art_affs`; art_affs.index(item) is the position
\* of the first entry equal to item
AffLineLoop(h, aff_line, art_affs, k) ==
  IF k > Len(art_affs) THEN h
  ELSE LET item == art_affs[k]
       IN  IF Contains(item.rid, "aff")
           THEN LET sup == NewId(h)
                    h1 == Created(h, [Element("sup") EXCEPT
                                        !.attrs = ("id" :> item.rid)])
                    h2 == WithText(h1, sup, Str(IndexOf(art_affs, item)))
                    h3 == appendChild(h2, aff_line, sup)
                IN  AffLineLoop(WithText(h3, aff_line, item.address),
                                aff_line, art_affs, k + 1)
           ELSE AffLineLoop(h, aff_line, art_affs, k + 1)

\* a variant that first turns the <div> elements of the abstract into
\* <blockquote>
AbstractStep_chained(h, synbody, abstract) ==
  LET h1 == appendChild(h, synbody, abstract)
      h2 == setAttribute(setTagName(h1, abstract, "div"), abstract, "id",
                         "abstract")
      h3 == Renamed(h2, getElementsByTagName(h2, abstract, "div"),
                    "blockquote")
      h4 == Renamed(h3, getElementsByTagName(h3, abstract, "sec"), "div")
      h5 == Renamed(h4, getElementsByTagName(h4, abstract, "p"), "big")
  IN  Renamed(h5, getElementsByTagName(h5, abstract, "italic"), "i")

\* lines 89-104: the abstract node of the metadata is appended to the
\* synopsis body and relabelled
AbstractStep(h, synbody, abstract) ==
  LET h1 == appendChild(h, synbody, abstract)
      h2 == setAttribute(setTagName(h1, abstract, "div"), abstract, "id",
                         "abstract")
      h3 == Renamed(h2, getElementsByTagName(h2, abstract, "title"), "h3")
      h4 == Renamed(h3, getElementsByTagName(h3, abstract, "sec"), "div")
      h5 == Renamed(h4, getElementsByTagName(h4, abstract, "p"), "big")
  IN  Renamed(h5, getElementsByTagName(h5, abstract, "italic"), "i")

RECURSIVE EditorAddrLoop(_, _, _, _, _)
\* lines 120-127: `for item in art_affs: if item.rid == aff`; the value is
\* the flag first afterwards
EditorAddrLoop(h, ped, items, aff, first) ==
  IF items = <<>> THEN Ok(h, first)
  ELSE LET item == Head(items)
       IN  IF item.rid = aff
           THEN EditorAddrLoop(
                  WithText(h, ped, IF first THEN item.address
                                   ELSE "; " \o item.address),
                  ped, Tail(items), aff, FALSE)
           ELSE EditorAddrLoop(h, ped, Tail(items), aff, first)

RECURSIVE EditorAffLoop(_, _, _, _, _)
\* line 119: `for aff in affs`
EditorAffLoop(h, ped, affs, art_affs, first) ==
  IF affs = <<>> THEN Ok(h, first)
  ELSE LET r == EditorAddrLoop(h, ped, art_affs, Head(affs), first)
       IN  EditorAffLoop(r.h, ped, Tail(affs), art_affs, r.v)

RECURSIVE EditorLoop(_, _, _, _, _)
\* lines 115-127: `for editor in art_edits`
EditorLoop(h, ped, editors, art_affs, first) ==
  IF editors = <<>> THEN h
  ELSE LET editor == Head(editors)
           h1 == WithText(h, ped, editor.name \o ", ")
           r == EditorAffLoop(h1, ped, editor.affiliation, art_affs, first)
       IN  EditorLoop(r.h, ped, Tail(editors), art_affs, r.v)

\* <p id=...><b>label</b>text</p> as the last child of synbody (the
\* copyright, funding and competing-interests paragraphs, lines 147-175)
WithLabelledPar(h, synbody, id, label, text) ==
  LET par == NewId(h)
      bold == par + 1
      h1 == Created(Created(h, [Element("p") EXCEPT !.attrs = ("id" :> id)]),
                    Element("b"))
      h2 == appendChild(WithText(h1, bold, label), par, bold)
  IN  appendChild(WithText(h2, par, text), synbody, par)

RECURSIVE DateLoop(_, _, _)
\* lines 138-143: `for _bold, _data in datelist`
DateLoop(h, datep, datelist) ==
  IF datelist = <<>> THEN h
  ELSE LET bold == NewId(h)
           h1 == WithText(Created(h, Element("b")), bold,
                          Head(datelist)[1] \o " ")
           h2 == appendChild(h1, datep, bold)
       IN  DateLoop(WithText(h2, datep, Head(datelist)[2] \o " "), datep,
                    Tail(datelist))

RECURSIVE serializeTextLoop(_, _)
\* utils.serializeText(fromnode) with sep = '': the text below the nodes ks
serializeTextLoop(h, ks) ==
  IF ks = <<>> THEN ""
  ELSE LET item == Head(ks)
       IN  (IF h[item].tag = "#text" /\ h[item].data # "\n"
            THEN h[item].data
            ELSE serializeTextLoop(h, h[item].kids))
             \o serializeTextLoop(h, Tail(ks))

\* utils.serializeText(fromnode)
serializeText(h, fromnode) == serializeTextLoop(h, h[fromnode].kids)

RECURSIVE ExtLinkLoop(_, _)
\* lines 188-194 and 532-539: `for ext_link in ext_links`
ExtLinkLoop(h, ext_links) ==
  IF ext_links = <<>> THEN Ok(h, None)
  ELSE LET r == ExtLinkStep(h, Head(ext_links))
       IN  IF r.err # None THEN r ELSE ExtLinkLoop(r.h, Tail(ext_links))

\* lines 28-76 of createSynopsis: the Synopsis document, the title and the
\* author line; the document gets the id NewId(h)
SynopsisHead(h, m) ==
  LET synop == NewId(h)
      synbody == BodyOf(synop)
      h1 == initiateDocument(h, "Synopsis file")
      titlenode == NewId(h1)
      h2 == appendChild(CreatedWithText(h1, "h1", m.title), synbody,
                        titlenode)
      author_container == NewId(h2)
      h3 == AuthorLoop(Created(h2, Element("h2")), author_container,
                       m.art_auths, TRUE, <<>>)
  IN  appendChild(h3, synbody, author_container)

\* lines 78-87: the affiliation line
SynopsisAffiliations(h, synop, m) ==
  LET aff_line == NewId(h)
      h1 == AffLineLoop(Created(h, Element("p")), aff_line, m.art_affs, 1)
  IN  appendChild(h1, BodyOf(synop), aff_line)

\* lines 89-104: the abstract; appendChild(None) raises
SynopsisAbstract(h, synop, m) ==
  LET abstitle == NewId(h)
      h1 == appendChild(CreatedWithText(h, "h2", "Abstract"), BodyOf(synop),
                        abstitle)
  IN  IF m.abstract = 0 THEN Raise(h1, "AttributeError")
      ELSE Ok(AbstractStep(h1, BodyOf(synop), m.abstract), None)

\* lines 107-128: the editor line
SynopsisEditors(h, synop, m) ==
  LET ped == NewId(h)
      bed == ped + 1
      h1 == Created(Created(h, [Element("p") EXCEPT
                                  !.attrs = ("id" :> "editor")]),
                    Element("b"))
      h2 == appendChild(WithText(h1, bed, "Editor: "), ped, bed)
  IN  appendChild(EditorLoop(h2, ped, m.art_edits, m.art_affs, TRUE),
                  BodyOf(synop), ped)

\* lines 131-144: the dates line; a date the metadata does not have raises
SynopsisDates(h, synop, m) ==
  LET datep == NewId(h)
      h1 == Created(h, [Element("p") EXCEPT !.attrs = ("id" :> "dates")])
  IN  IF {"received", "accepted"} \ DOMAIN m.history # {}
         \/ "epub" \notin DOMAIN m.art_dates
      THEN Raise(h1, "KeyError")
      ELSE LET datelist == << <<"Received", m.history["received"]>>,
                              <<"Accepted", m.history["accepted"]>>,
                              <<"Published", m.art_dates["epub"]>> >>
           IN  Ok(appendChild(DateLoop(h1, datep, datelist), BodyOf(synop),
                              datep),
                  None)

\* the copyright sign u'\u00A9' of line 152, in ASCII
COPYRIGHT_SIGN == "(c)"

\* lines 147-175: the copyright, funding and competing interests paragraphs
SynopsisNotes(h, synop, m, b) ==
  LET synbody == BodyOf(synop)
      h1 == WithLabelledPar(h, synbody, "copyright", "Copyright: ",
                            COPYRIGHT_SIGN \o " " \o m.art_copyright_year
                              \o " " \o m.art_copyright_statement)
      h2 == WithLabelledPar(h1, synbody, "funding", "Funding: ", b.funding)
  IN  WithLabelledPar(h2, synbody, "competing-interests",
                      "Competing Interests: ", b.competing_interests)

\* lines 178-208: the correspondence line and the <ext-link> of the
\* Synopsis document; [0] on an empty list raises
SynopsisCorresp(h, synop, m) ==
  LET corr_line == NewId(h)
      h1 == Created(h, Element("p"))
  IN  IF m.art_corresps = <<>> \/ m.correspondences = <<>>
      THEN Raise(h1, "IndexError")
      ELSE
      LET h2 == WithText(
                  setAttribute(h1, corr_line, "id", m.art_corresps[1].rid),
                  corr_line, serializeText(h1, m.correspondences[1]))
          r == ExtLinkLoop(h2, getElementsByTagName(h2, synop, "ext-link"))
      IN  IF r.err # None THEN r
          ELSE Ok(appendChild(r.h, BodyOf(synop), corr_line), None)

(***************************************************************************)
(* Input articles.  An article is built from a list of body blocks and a   *)
(* list of references; the metadata object holds the abstract and the      *)
(* correspondence nodes of the same document.                              *)
(***************************************************************************)
MaxBlocks == 2
MaxRefs == 2

T(tag, text) == El(tag, NoAttrs, <<Tx(text)>>)

SecBlock ==
  El("sec", ("sec-type" :> "intro"),
     << T("title", "Intro"),
        El("p", NoAttrs,
           << Tx("See "),
              El("xref", ("ref-type" :> "bibr") @@ ("rid" :> "B1"),
                 <<Tx("1")>>),
              T("italic", "in vivo"),
              T("bold", "note") >>) >>)

FigBlock ==
  El("fig", ("id" :> "pone-0000001-g001"),
     << T("label", "Figure 1"),
        El("caption", NoAttrs, << T("title", "A figure"), T("p", "Legend") >>),
        El("graphic", ("xlink:href" :> "info:doi/10.1371/pone.0000001.g001"),
           <<>>) >>)

TableHtmlBlock ==
  El("table-wrap", ("id" :> "pone-0000001-t001"),
     << T("label", "Table 1"),
        El("caption", NoAttrs, <<T("title", "First")>>),
        El("graphic", ("xlink:href" :> "info:doi/10.1371/pone.0000001.t001"),
           <<>>),
        El("table", ("alternate-form-of" :> "pone-0000001-t001"),
           << El("tr", NoAttrs, << El("td", NoAttrs, <<T("bold", "x")>>) >>)
           >>) >>)

TablePlainBlock ==
  El("table-wrap", ("id" :> "pone-0000001-t002"),
     << T("label", "Table 2"),
        El("caption", NoAttrs, <<T("title", "Second")>>),
        El("graphic", ("xlink:href" :> "info:doi/10.1371/pone.0000001.t002"),
           <<>>) >>)

TableNoLabelBlock ==
  El("table-wrap", ("id" :> "pone-0000001-t003"),
     << El("caption", NoAttrs, <<T("title", "Third")>>),
        El("graphic", ("xlink:href" :> "info:doi/10.1371/pone.0000001.t003"),
           <<>>) >>)

XrefOtherBlock ==
  El("p", NoAttrs,
     << El("xref", ("ref-type" :> "disp-formula") @@ ("rid" :> "e001"),
           <<Tx("(1)")>>) >>)

DispBlock ==
  El("p", NoAttrs,
     << Tx("where"),
        El("disp-formula", ("id" :> "pone.0000001.e001"),
           << El("graphic",
                 ("xlink:href" :> "info:doi/10.1371/pone.0000001.e001"),
                 <<>>) >>),
        Tx("holds") >>)

InlineBlock ==
  El("p", NoAttrs,
     << El("inline-formula", NoAttrs,
           << El("inline-graphic",
                 ("xlink:href" :> "info:doi/10.1371/pone.0000001.e002"),
                 <<>>) >>) >>)

ListBlock ==
  El("list", ("list-type" :> "order"),
     << El("list-item", NoAttrs, <<T("p", "one")>>) >>)

SuppBlock ==
  El("supplementary-material",
     ("id" :> "pone.0000001.s001") @@ ("mimetype" :> "text/plain")
       @@ ("xlink:href" :> "info:doi/10.1371/pone.0000001.s001")
       @@ ("xlink:type" :> "simple"),
     << T("label", "Text S1"),
        El("caption", NoAttrs, <<T("p", "Methods")>>) >>)

ExtBlock ==
  El("p", NoAttrs,
     << El("ext-link",
           ("ext-link-type" :> "uri") @@ ("xlink:href" :> "http://x.org")
             @@ ("xlink:type" :> "simple"),
           <<Tx("x.org")>>) >>)

\* an HTML table whose cell holds a cross-reference and a list
TableRichBlock ==
  El("table-wrap", ("id" :> "pone-0000001-t001"),
     << T("label", "Table 1"),
        El("caption", NoAttrs, <<T("title", "First")>>),
        El("graphic", ("xlink:href" :> "info:doi/10.1371/pone.0000001.t001"),
           <<>>),
        El("table", ("alternate-form-of" :> "pone-0000001-t001"),
           << El("tr", NoAttrs,
                 << El("td", NoAttrs,
                       << El("xref", ("ref-type" :> "bibr") @@ ("rid" :> "B1"),
                             <<Tx("[1]")>>),
                          El("list", ("id" :> "L9") @@ ("list-type" :> "order"),
                             << El("list-item", NoAttrs, <<T("p", "cell")>>)
                             >>) >>) >>) >>) >>)

\* a second <table-wrap> with an HTML table
TableHtml2Block ==
  El("table-wrap", ("id" :> "pone-0000001-t002"),
     << T("label", "Table 2"),
        El("caption", NoAttrs, <<T("title", "Second")>>),
        El("graphic", ("xlink:href" :> "info:doi/10.1371/pone.0000001.t002"),
           <<>>),
        El("table", ("alternate-form-of" :> "pone-0000001-t002"),
           << El("tr", NoAttrs, << El("td", NoAttrs, <<Tx("y")>>) >>)
           >>) >>)

\* a bullet list with the three attributes; its second item holds a list
ListBulletBlock ==
  El("list",
     ("id" :> "L1") @@ ("list-type" :> "bullet") @@ ("list-content" :> "x")
       @@ ("prefix-word" :> "Step"),
     << El("list-item", NoAttrs, <<T("p", "one")>>),
        El("list-item", NoAttrs,
           << T("p", "two"),
              El("list", ("id" :> "L2") @@ ("list-type" :> "roman-lower"),
                 << El("list-item", NoAttrs, <<T("p", "i")>>) >>) >>) >>)

ListSimpleBlock ==
  El("list", ("id" :> "L3") @@ ("list-type" :> "simple"),
     << El("list-item", NoAttrs, <<T("p", "one")>>) >>)

\* a list-type the code does not know
ListUnknownBlock ==
  El("list", ("id" :> "L4") @@ ("list-type" :> "checklist")
               @@ ("prefix-word" :> "Item"),
     << El("list-item", NoAttrs, <<T("p", "one")>>) >>)

\* no list-type attribute
ListNoTypeBlock ==
  El("list", ("id" :> "L5"),
     << El("list-item", NoAttrs, <<T("p", "one")>>) >>)

ListAlphaBlock ==
  El("list", ("id" :> "L6") @@ ("list-type" :> "alpha-upper"),
     << El("list-item", NoAttrs, <<T("p", "one")>>) >>)

ListBlocks ==
  {ListBulletBlock, ListSimpleBlock, ListUnknownBlock, ListNoTypeBlock,
   ListAlphaBlock}

\* cross-references of every known ref-type
XrefKnownBlock ==
  El("p", NoAttrs,
     << El("xref", ("ref-type" :> "fig") @@ ("rid" :> "g001"),
           <<Tx("Fig. 1")>>),
        El("xref", ("ref-type" :> "table") @@ ("rid" :> "t001"),
           <<Tx("Table 1")>>),
        El("xref", ("ref-type" :> "supplementary-material")
                     @@ ("rid" :> "s001"),
           <<Tx("Text S1")>>),
        El("xref", ("ref-type" :> "aff") @@ ("rid" :> "aff1"),
           <<Tx("a")>>) >>)

Blocks ==
  {SecBlock, FigBlock, TableHtmlBlock, TablePlainBlock, TableNoLabelBlock,
   XrefOtherBlock, DispBlock, InlineBlock, ListBlock, SuppBlock, ExtBlock}

Name(surname, given) ==
  El("name", NoAttrs, << T("surname", surname), T("given-names", given) >>)

\* a reference as the journal's XML has it: the names alone in the
\* person-group, no white space between the elements
RefPlos ==
  El("ref", ("id" :> "B1"),
     << T("label", "1"),
        El("citation", ("citation-type" :> "journal"),
           << El("person-group", ("person-group-type" :> "author"),
                 << Name("Smith", "J"), Name("Doe", "A") >>),
              T("year", "2012"), T("article-title", "A Study"),
              T("source", "J. Examples"), T("volume", "5"), T("issue", "2"),
              T("fpage", "10"), T("lpage", "20") >>) >>)

\* the list of names ends with <etal/>; no issue, no last page
RefEtal ==
  El("ref", ("id" :> "B2"),
     << T("label", "2"),
        El("citation", ("citation-type" :> "journal"),
           << El("person-group", ("person-group-type" :> "author"),
                 << Name("Smith", "J"), El("etal", NoAttrs, <<>>) >>),
              T("year", "2010"), T("article-title", "B"), T("source", "S"),
              T("volume", "7"), T("fpage", "3") >>) >>)

\* an indented document: white space between the elements of the group
RefPretty ==
  El("ref", ("id" :> "B3"),
     << T("label", "3"),
        El("citation", ("citation-type" :> "journal"),
           << El("person-group", ("person-group-type" :> "author"),
                 << Tx("\n  "), Name("Roe", "R"), Tx("\n") >>),
              T("year", "2011"), T("article-title", "C"), T("source", "S"),
              T("volume", "1"), T("fpage", "9") >>) >>)

RefOther ==
  El("ref", ("id" :> "B4"),
     << T("label", "4"),
        El("citation", ("citation-type" :> "other"),
           << T("source", "A Book"), Tx("  "), T("year", "2001"),
              Tx("Press") >>) >>)

RefBook ==
  El("ref", ("id" :> "B5"),
     << T("label", "5"),
        El("citation", ("citation-type" :> "book"),
           <<T("source", "Another Book")>>) >>)

Refs == {RefPlos, RefEtal, RefPretty, RefOther, RefBook}

\* the article with the given body blocks and references
ArticleTree(body, refs) ==
  El("article", NoAttrs,
     << El("front", NoAttrs,
           << El("article-meta", NoAttrs,
                 << El("abstract", NoAttrs,
                       << El("sec", NoAttrs,
                             << T("title", "Background"),
                                El("p", NoAttrs,
                                   << Tx("Summary "), T("italic", "E. coli")
                                   >>) >>) >>),
                    El("author-notes", NoAttrs,
                       << El("corresp", ("id" :> "cor1"),
                             << Tx("E-mail: "), T("email", "a@x.org") >>)
                       >>) >>) >>),
        El("body", NoAttrs, body),
        El("back", NoAttrs,
           << El("ref-list", NoAttrs, <<T("title", "References")>> \o refs)
           >>) >>)

\* the metadata object of the article in heap h with root d; corresps is
\* its list of correspondence entries
MetaOf(h, d, corresps) ==
  [title |-> "An Article",
   art_auths |-> << [name |-> "Ann Smith", affiliation |-> <<"aff1">>,
                     contact |-> <<"cor1">>],
                    [name |-> "Bob Doe", affiliation |-> <<"aff2", "aff1">>,
                     contact |-> <<>>] >>,
   art_affs |-> << [rid |-> "aff1", address |-> "Univ. One"],
                   [rid |-> "aff2", address |-> "Univ. Two"],
                   [rid |-> "edit1", address |-> "Univ. Three"] >>,
   abstract |-> getElementsByTagName(h, d, "abstract")[1],
   art_edits |-> << [name |-> "Ed Roe", affiliation |-> <<"edit1">>] >>,
   history |-> ("received" :> "January 1, 2012")
                 @@ ("accepted" :> "March 1, 2012"),
   art_dates |-> ("epub" :> "April 1, 2012"),
   art_copyright_year |-> "2012",
   art_copyright_statement |-> "Smith et al.",
   art_corresps |-> corresps,
   correspondences |->
     IF corresps = <<>> THEN <<>>
     ELSE getElementsByTagName(h, d, "corresp")]

BackData ==
  [funding |-> "No funding.", competing_interests |-> "None declared."]

\* os.walk('images') of the OPS directory: the files in walk order
DefaultWalk ==
  << "images/figures/g001.png", "images/tables/t001.png",
     "images/tables/t002.png", "images/equations/e001.png",
     "images/equations/e002.png" >>

Walks == {DefaultWalk, <<>>}

\* an images directory where every name without extension occurs twice
DupWalk ==
  << "images/figures/g001.png", "images/tables/t001.png",
     "images/tables/t002.png", "images/equations/e001.png",
     "images/equations/e002.png", "images/old/g001.jpg",
     "images/old/t001.jpg", "images/old/t002.jpg", "images/old/e001.gif",
     "images/old/e002.gif" >>

DefaultBody == <<SecBlock, TableHtmlBlock>>
DefaultRefs == <<RefPlos>>
DefaultCorresps == <<[rid |-> "cor1"]>>

\* the author lists of the metadata: the affiliation ids each author cites
DefaultAuths ==
  << [name |-> "Ann Smith", affiliation |-> <<"aff1">>,
      contact |-> <<"cor1">>],
     [name |-> "Bob Doe", affiliation |-> <<"aff2", "aff1">>,
      contact |-> <<>>] >>

\* two authors share aff1, the second also cites aff2
SharedAuths ==
  << [name |-> "Ann Smith", affiliation |-> <<"aff1">>, contact |-> <<>>],
     [name |-> "Bob Doe", affiliation |-> <<"aff1", "aff2">>,
      contact |-> <<"cor1">>] >>

\* aff2 is met first; the last author cites nothing
LaterFirstAuths ==
  << [name |-> "Ann Smith", affiliation |-> <<"aff2">>, contact |-> <<>>],
     [name |-> "Bob Doe", affiliation |-> <<"aff1", "aff2">>,
      contact |-> <<>>],
     [name |-> "Cy Roe", affiliation |-> <<>>, contact |-> <<>>] >>

\* one author cites the same affiliation twice
TwiceAuths ==
  << [name |-> "Di Poe", affiliation |-> <<"aff3", "aff3", "aff1">>,
      contact |-> <<"cor1">>] >>

AuthorLists ==
  {DefaultAuths, SharedAuths, LaterFirstAuths, TwiceAuths, <<>>}

\* bodies with lists: after a table-wrap, alone, and inside an HTML table
ListBodies ==
  {<<TablePlainBlock, l>> : l \in ListBlocks}
  \cup {<<l>> : l \in ListBlocks}
  \cup {<<TableRichBlock>>, <<TableRichBlock, ListBulletBlock>>}

\* bodies with cross-references after a table-wrap: of every known type,
\* of an unknown type first, and of an unknown type after a known one
XrefBodies ==
  {<<TablePlainBlock, XrefKnownBlock>>, <<TablePlainBlock, XrefOtherBlock>>,
   <<TablePlainBlock, XrefKnownBlock, XrefOtherBlock>>,
   <<TablePlainBlock, XrefOtherBlock, XrefKnownBlock>>,
   <<SecBlock, TablePlainBlock, XrefOtherBlock>>}

\* bodies whose images are looked up
ImageBodies ==
  {<<FigBlock, TableHtmlBlock>>, <<TablePlainBlock, DispBlock>>,
   <<TablePlainBlock, InlineBlock>>,
   <<FigBlock, TablePlainBlock, DispBlock, InlineBlock>>}

\* bodies with two and three <table-wrap> elements that have an HTML table
TableBodies ==
  {<<TableHtmlBlock, TableHtml2Block>>, <<TableHtml2Block, TableHtmlBlock>>,
   <<TableHtmlBlock, TableHtml2Block, TableHtmlBlock>>,
   <<TableHtmlBlock, SecBlock, TableHtml2Block>>}

\* a <supplementary-material> of a known journal without xlink:href
SuppNoHrefBlock ==
  El("supplementary-material",
     ("id" :> "pone.0000001.s002") @@ ("mimetype" :> "text/plain"),
     << T("label", "Text S2"),
        El("caption", NoAttrs, <<T("p", "Data")>>) >>)

\* a <supplementary-material> with xlink:href whose id starts with no
\* known journal
SuppUnknownBlock ==
  El("supplementary-material",
     ("id" :> "pxyz.0000001.s003")
       @@ ("xlink:href" :> "info:doi/10.1371/pxyz.0000001.s003"),
     << T("label", "Text S3"),
        El("caption", NoAttrs, <<T("p", "Code")>>) >>)

\* a <supplementary-material> with neither an id nor xlink:href
SuppBareBlock ==
  El("supplementary-material", NoAttrs, << T("label", "Text S4") >>)

\* bodies with supplementary materials after a table-wrap
SuppBodies ==
  {<<TablePlainBlock, SuppNoHrefBlock>>, <<TablePlainBlock, SuppUnknownBlock>>,
   <<TablePlainBlock, SuppBareBlock>>,
   <<TablePlainBlock, SuppBlock, SuppNoHrefBlock>>}

\* a paragraph that ends with a display formula
DispEndBlock ==
  El("p", NoAttrs,
     << Tx("where"),
        El("disp-formula", ("id" :> "pone.0000001.e002"),
           << El("graphic",
                 ("xlink:href" :> "info:doi/10.1371/pone.0000001.e002"),
                 <<>>) >>) >>)

\* bodies with a display formula, with and without content after it in
\* its paragraph, in a paragraph that has a next sibling and in the last
\* paragraph of the body; the table-wrap makes the constructor get as far
\* as the formulas
DispBodies ==
  {<<DispBlock, TablePlainBlock>>, <<DispEndBlock, TablePlainBlock>>,
   <<TablePlainBlock, DispBlock>>, <<TablePlainBlock, DispEndBlock>>,
   <<DispBlock, DispEndBlock, TablePlainBlock>>}

\* a section with a title and a paragraph, holding the sections inner
Sec(title, inner) ==
  El("sec", NoAttrs, <<T("title", title), T("p", "text")>> \o inner)

\* a section without a title, holding the sections inner
SecUntitled(inner) == El("sec", NoAttrs, <<T("p", "text")>> \o inner)

RECURSIVE SecNested(_)
\* n sections nested in one another, each with a title
SecNested(n) ==
  IF n = 1 THEN Sec("Level", <<>>) ELSE Sec("Level", <<SecNested(n - 1)>>)

\* bodies with sections: nested with siblings at both depths, nested as
\* deep as the heading list and one deeper, and sections without a title
\* of their own: alone, before a titled one, and around a titled one
SecBodies ==
  {<<Sec("A", <<Sec("A1", <<>>), Sec("A2", <<>>)>>), Sec("B", <<Sec("B1", <<>>)>>)>>,
   <<SecNested(5)>>, <<SecNested(6)>>,
   <<SecUntitled(<<>>)>>, <<SecUntitled(<<>>), Sec("A", <<>>)>>,
   <<SecUntitled(<<Sec("A", <<>>)>>)>>,
   <<Sec("A", <<SecUntitled(<<>>), Sec("A2", <<>>)>>)>>}

\* the inputs of the content generator: every body of up to MaxBlocks
\* blocks, every reference list of up to MaxRefs references and the empty
\* one (with and without body), the image directories, a metadata without
\* correspondence, the author lists
Inputs ==
  {[body |-> b, refs |-> DefaultRefs, walk |-> DefaultWalk,
    corresps |-> DefaultCorresps, auths |-> DefaultAuths] :
     b \in SeqsUpTo(Blocks, MaxBlocks)}
  \cup {[body |-> b, refs |-> r, walk |-> DefaultWalk,
         corresps |-> DefaultCorresps, auths |-> DefaultAuths] :
          b \in {DefaultBody, <<>>},
          r \in SeqsUpTo(Refs, MaxRefs) \cup {<<>>}}
  \cup {[body |-> b, refs |-> DefaultRefs, walk |-> <<>>,
         corresps |-> DefaultCorresps, auths |-> DefaultAuths] :
          b \in {DefaultBody, <<TablePlainBlock>>, <<SecBlock>>}}
  \cup {[body |-> DefaultBody, refs |-> DefaultRefs, walk |-> DefaultWalk,
         corresps |-> <<>>, auths |-> DefaultAuths]}
  \cup {[body |-> DefaultBody, refs |-> DefaultRefs, walk |-> DefaultWalk,
         corresps |-> c, auths |-> a] :
          c \in {DefaultCorresps, <<>>}, a \in AuthorLists}
  \cup {[body |-> b, refs |-> DefaultRefs, walk |-> DefaultWalk,
         corresps |-> DefaultCorresps, auths |-> DefaultAuths] :
          b \in ListBodies \cup XrefBodies \cup TableBodies \cup SecBodies \cup DispBodies
                \cup SuppBodies}
  \cup {[body |-> b, refs |-> DefaultRefs, walk |-> DupWalk,
         corresps |-> DefaultCorresps, auths |-> DefaultAuths] :
          b \in ImageBodies}

(***************************************************************************)
(* OPSContent.__init__ as a state machine.  cpc is the statement the       *)
(* constructor is at; loc holds the local variables of the method that     *)
(* runs (pending: the rest of the list the current for loop goes over).    *)
(* outputs maps an output file to what it holds; hist records the          *)
(* table-wrap iterations, the references and the writes.                   *)
(***************************************************************************)
\* a file that was opened for writing and not written: it holds no document
EmptyFile == [tag |-> "", attrs |-> NoAttrs, kids |-> <<>>, data |-> ""]

OutputNames == {"Synopsis", "Main", "Biblio", "Tables"}

\* `open(self.outputs[name], 'wb')`
Open(outs, name) == (name :> EmptyFile) @@ outs

\* `out.write(document.toprettyxml(encoding = 'utf-8'))` of document d
Write(outs, name, h, d) == (name :> toprettyxml(h, d)) @@ outs

WriteEvent(name, d) == [kind |-> "write", name |-> name, doc |-> d]

NoLocals ==
  [synop |-> 0, main |-> 0, mainbody |-> 0, pending |-> <<>>, dest |-> None,
   table_doc |-> 0]

\* the state before the first of `times` constructions on one input
InitContentRuns(times) ==
  /\ ConvertIdle
  /\ MetaIdle
  /\ ZipIdle
  /\ \E inp \in Inputs :
       /\ heap = AddTree(<<>>, ArticleTree(inp.body, inp.refs), 0)
       /\ images = inp.walk
       /\ meta = [article_meta |->
                    [MetaOf(heap, 1, inp.corresps) EXCEPT
                       !.art_auths = inp.auths],
                  back |-> BackData]
       /\ run = [n |-> 1, of |-> times, input |-> inp, first |-> <<>>]
  /\ doc = 1
  /\ cpc = "createSynopsis"
  /\ outputs = <<>>
  /\ loc = NoLocals
  /\ raised = None
  /\ hist = <<>>

InitContent == InitContentRuns(1)

\* an exception leaves the constructor: nothing catches it
Raises(h, err) ==
  /\ heap' = h
  /\ raised' = err
  /\ cpc' = "raised"

\* line 19: self.createSynopsis(self.metadata, self.backdata) begins
CreateSynopsis ==
  /\ cpc = "createSynopsis"
  /\ heap' = SynopsisHead(heap, meta.article_meta)
  /\ loc' = [loc EXCEPT !.synop = NewId(heap)]
  /\ cpc' = "affiliations"
  /\ UNCHANGED <<doc, meta, images, run, outputs, raised, hist>>

SynAffiliations ==
  /\ cpc = "affiliations"
  /\ heap' = SynopsisAffiliations(heap, loc.synop, meta.article_meta)
  /\ cpc' = "abstract"
  /\ UNCHANGED <<doc, meta, images, run, outputs, loc, raised, hist>>

\* a statement of createSynopsis that may raise, followed by `position`
SynStatement(r, position) ==
  /\ IF r.err # None
     THEN Raises(r.h, r.err)
     ELSE /\ heap' = r.h
          /\ cpc' = position
          /\ UNCHANGED raised
  /\ UNCHANGED <<doc, meta, images, run, outputs, loc, hist>>

SynAbstract ==
  /\ cpc = "abstract"
  /\ SynStatement(SynopsisAbstract(heap, loc.synop, meta.article_meta),
                  "editors")

SynEditors ==
  /\ cpc = "editors"
  /\ heap' = SynopsisEditors(heap, loc.synop, meta.article_meta)
  /\ cpc' = "dates"
  /\ UNCHANGED <<doc, meta, images, run, outputs, loc, raised, hist>>

SynDates ==
  /\ cpc = "dates"
  /\ SynStatement(SynopsisDates(heap, loc.synop, meta.article_meta), "notes")

SynNotes ==
  /\ cpc = "notes"
  /\ heap' = SynopsisNotes(heap, loc.synop, meta.article_meta, meta.back)
  /\ cpc' = "correspondence"
  /\ UNCHANGED <<doc, meta, images, run, outputs, loc, raised, hist>>

\* lines 178-211: the correspondence line, then synop.xml is opened and
\* written
SynCorrespAndWrite ==
  /\ cpc = "correspondence"
  /\ LET r == SynopsisCorresp(heap, loc.synop, meta.article_meta)
     IN  IF r.err # None
         THEN /\ Raises(r.h, r.err)
              /\ UNCHANGED <<outputs, hist>>
         ELSE /\ heap' = r.h
              /\ outputs' = Write(Open(outputs, "Synopsis"), "Synopsis",
                                  r.h, loc.synop)
              /\ hist' = Append(hist, WriteEvent("Synopsis", loc.synop))
              /\ cpc' = "createMain"
              /\ UNCHANGED raised
  /\ UNCHANGED <<doc, meta, images, run, loc>>

\* lines 222-233 on the heap that has the copy of the body: <sec> and
\* <italic>, then divTitleScan
MainScan(h, mainbody) ==
  divTitleScan(
    RenameAll(SecLoop(h, getElementsByTagName(h, mainbody, "sec")), mainbody,
              "italic", "i"),
    mainbody, 0)

\* the value of the first part of createMain: the Main document
MainStarted(r, main) == IF r.err # None THEN r ELSE Ok(r.h, main)

\* lines 216-233: the Main document (it gets the id NewId(h)), the copy of
\* the body, <sec> and <italic>, divTitleScan
MainStart(h, d) ==
  LET main == NewId(h)
      bodies == getElementsByTagName(h, d, "body")
  IN  IF bodies = <<>>
      THEN Raise(initiateDocument(h, "Main file"), "IndexError")
      ELSE MainStarted(
             MainScan(CloneKids(initiateDocument(h, "Main file"),
                                h[bodies[1]].kids, BodyOf(main)),
                      BodyOf(main)),
             main)

\* the for loop at cpc is entered with the elements `tag` of the main body
EnterLoop(h, mainbody, tag, position) ==
  /\ cpc' = position
  /\ loc' = [loc EXCEPT !.mainbody = mainbody,
                        !.pending = getElementsByTagName(h, mainbody, tag)]

\* createMain goes on to the figure loop, or raises: r is the result of its
\* first part
MainEntered(r) ==
  IF r.err # None
  THEN /\ Raises(r.h, r.err)
       /\ UNCHANGED loc
  ELSE /\ heap' = r.h
       /\ cpc' = "figs"
       /\ loc' = [loc EXCEPT
                    !.main = r.v, !.mainbody = BodyOf(r.v),
                    !.pending = getElementsByTagName(r.h, BodyOf(r.v), "fig")]
       /\ UNCHANGED raised

\* line 20, first part: createMain up to the figure loop
CreateMain ==
  /\ cpc = "createMain"
  /\ MainEntered(MainStart(heap, doc))
  /\ UNCHANGED <<doc, meta, images, run, outputs, hist>>

\* one iteration of a for loop of createMain whose body is Step
Iterate(r) ==
  IF r.err # None
  THEN /\ Raises(r.h, r.err)
       /\ UNCHANGED loc
  ELSE /\ heap' = r.h
       /\ loc' = [loc EXCEPT !.pending = Tail(@)]
       /\ UNCHANGED <<cpc, raised>>

\* the for loop is over: the next statement collects its elements
LoopDone(tag, position) ==
  /\ EnterLoop(heap, loc.mainbody, tag, position)
  /\ UNCHANGED <<heap, raised>>

\* lines 237-273: the figure loop
FigLoop ==
  /\ cpc = "figs"
  /\ IF loc.pending # <<>>
     THEN Iterate(FigStep(heap, images, Head(loc.pending)))
     ELSE LoopDone("table-wrap", "tables")
  /\ UNCHANGED <<doc, meta, images, run, outputs, hist>>

\* what an iteration of the table loop did to the <table-wrap> item: r is
\* the result of the iteration on heap h
TableEvent(h, item, r) ==
  [kind |-> "table-wrap",
   has_table |-> getElementsByTagName(h, item, "table") # <<>>,
   has_label |-> getElementsByTagName(h, item, "label") # <<>>,
   err |-> r.err,
   before |-> h[h[item].parent].kids,
   at |-> IndexOf(h[h[item].parent].kids, item),
   after |-> r.h[h[item].parent].kids,
   table_label |-> IF r.err = None THEN r.v.table_label ELSE 0,
   imgnode |-> IF r.err = None THEN r.v.imgnode ELSE 0,
   label_block |-> IF r.err = None THEN TreeOf(r.h, r.v.table_label)
                   ELSE Tx(""),
   img |-> IF r.err = None THEN TreeOf(r.h, r.v.imgnode) ELSE Tx(""),
   linked |-> IF r.err = None THEN r.v.linked ELSE FALSE,
   table_doc |-> IF r.err = None THEN r.v.table_doc ELSE 0]

\* the name table_doc after line 312 of an iteration that made the
\* document `made`: every iteration binds it anew (0: not bound)
BoundTableDoc_first(prev, made) == IF prev = 0 THEN made ELSE prev
BoundTableDoc(prev, made) == made

\* one iteration of the table loop: r is the result of the iteration on
\* the <table-wrap> item
TableIterate(item, r) ==
  /\ hist' = Append(hist, TableEvent(heap, item, r))
  /\ IF r.err # None
     THEN /\ Raises(r.h, r.err)
          /\ UNCHANGED loc
     ELSE /\ heap' = r.h
          /\ loc' = [loc EXCEPT
                       !.pending = Tail(@),
                       !.table_doc = BoundTableDoc(@, r.v.table_doc)]
          /\ UNCHANGED <<cpc, raised>>

\* lines 278-327: the table loop
TableLoop ==
  /\ cpc = "tables"
  /\ IF loc.pending # <<>>
     THEN TableIterate(Head(loc.pending),
                       TableWrapStep(heap, images, Head(loc.pending)))
     ELSE /\ cpc' = "writeTables"
          /\ UNCHANGED <<heap, loc, raised, hist>>
  /\ UNCHANGED <<doc, meta, images, run, outputs>>

\* lines 329-333: tables.xml is opened, then table_doc is read: the name is
\* not bound when the loop had no iteration
WriteTables ==
  /\ cpc = "writeTables"
  /\ IF loc.table_doc = 0
     THEN /\ outputs' = Open(outputs, "Tables")
          /\ Raises(heap, "UnboundLocalError")
          /\ UNCHANGED <<loc, hist>>
     ELSE /\ outputs' = Write(Open(outputs, "Tables"), "Tables", heap,
                              loc.table_doc)
          /\ hist' = Append(hist, WriteEvent("Tables", loc.table_doc))
          /\ LoopDone("xref", "xrefs")
  /\ UNCHANGED <<doc, meta, images, run>>

\* what one iteration of the xref loop did to the <xref> elem: its
\* attributes before, whether an earlier iteration bound dest, the
\* exception raised, the element afterwards
XrefEvent(h, elem, r) ==
  [kind |-> "xref",
   ref_type |-> getAttribute(h, elem, "ref-type"),
   rid |-> getAttribute(h, elem, "rid"),
   dest_bound |-> loc.dest # None,
   err |-> r.err,
   elem |-> TreeOf(r.h, elem)]

\* lines 334-350: the cross-reference loop
XrefLoop ==
  /\ cpc = "xrefs"
  /\ IF loc.pending # <<>>
     THEN LET r == XrefStep(heap, loc.dest, Head(loc.pending))
          IN  /\ hist' = Append(hist, XrefEvent(heap, Head(loc.pending), r))
              /\ IF r.err # None
                 THEN /\ Raises(r.h, r.err)
                      /\ UNCHANGED loc
                 ELSE /\ heap' = r.h
                      /\ loc' = [loc EXCEPT !.pending = Tail(@),
                                            !.dest = r.v]
                      /\ UNCHANGED <<cpc, raised>>
     ELSE /\ cpc' = "captions"
          /\ UNCHANGED <<heap, loc, raised, hist>>
  /\ UNCHANGED <<doc, meta, images, run, outputs>>

\* lines 352-357: every <caption> left becomes <div>
CaptionLoop ==
  /\ cpc = "captions"
  /\ heap' = Renamed(heap, getElementsByTagName(heap, loc.mainbody,
                                                 "caption"), "div")
  /\ EnterLoop(heap', loc.mainbody, "inline-formula", "inline")
  /\ UNCHANGED <<doc, meta, images, run, outputs, raised, hist>>

\* lines 358-379: the inline formula loop
InlineLoop ==
  /\ cpc = "inline"
  /\ IF loc.pending # <<>>
     THEN Iterate(InlineStep(heap, images, Head(loc.pending)))
     ELSE LoopDone("disp-formula", "disp")
  /\ UNCHANGED <<doc, meta, images, run, outputs, hist>>

\* lines 386-429: the display formula loop
DispLoop ==
  /\ cpc = "disp"
  /\ IF loc.pending # <<>>
     THEN Iterate(DispStep(heap, images, Head(loc.pending)))
     ELSE LoopDone("list", "lists")
  /\ UNCHANGED <<doc, meta, images, run, outputs, hist>>

\* lines 433-483: the list loop
ListLoop ==
  /\ cpc = "lists"
  /\ IF loc.pending # <<>>
     THEN Iterate(ListStep(heap, Head(loc.pending)))
     ELSE LoopDone("supplementary-material", "supp")
  /\ UNCHANGED <<doc, meta, images, run, outputs, hist>>

\* lines 489-530: the supplementary material loop
SuppLoop ==
  /\ cpc = "supp"
  /\ IF loc.pending # <<>>
     THEN Iterate(SuppStep(heap, Head(loc.pending)))
     ELSE /\ cpc' = "extlinks"
          /\ UNCHANGED <<heap, loc, raised>>
  /\ UNCHANGED <<doc, meta, images, run, outputs, hist>>

\* lines 532-543: the <ext-link> and <bold> of the whole Main document
MainCleanup ==
  /\ cpc = "extlinks"
  /\ LET r == ExtLinkLoop(heap,
                          getElementsByTagName(heap, loc.main, "ext-link"))
     IN  IF r.err # None
         THEN Raises(r.h, r.err)
         ELSE /\ heap' = Renamed(r.h, getElementsByTagName(r.h, loc.main,
                                                           "bold"), "b")
              /\ cpc' = "writeMain"
              /\ UNCHANGED raised
  /\ UNCHANGED <<doc, meta, images, run, outputs, loc, hist>>

\* lines 545-546: main.xml is opened and written
WriteMainOk ==
  /\ cpc = "writeMain"
  /\ outputs' = Write(Open(outputs, "Main"), "Main", heap, loc.main)
  /\ hist' = Append(hist, WriteEvent("Main", loc.main))
  /\ cpc' = "createBiblio"
  /\ UNCHANGED <<heap, doc, meta, images, run, loc, raised>>

\* lines 545-546 where the minidom of the interpreter does not write an
\* attribute whose value is None (an <img> whose image was not found):
\* toprettyxml raises after the file was opened
WriteMainRaises ==
  /\ cpc = "writeMain"
  /\ HasNoneAttr(heap, loc.main)
  /\ outputs' = Open(outputs, "Main")
  /\ Raises(heap, "AttributeError")
  /\ UNCHANGED <<doc, meta, images, run, loc, hist>>

\* the hist entry of a reference: the text of the paragraph parseRef made
RefEvent(h, pr) ==
  [kind |-> "ref", ref |-> pr.ref,
   citation_type |->
     getAttribute(h, getElementsByTagName(h, pr.ref, "citation")[1],
                  "citation-type"),
   text |-> IF h[pr.par].kids = <<>> THEN None
            ELSE h[h[pr.par].kids[1]].data]

RECURSIVE RefEvents(_, _)
RefEvents(h, pars) ==
  IF pars = <<>> THEN <<>>
  ELSE <<RefEvent(h, Head(pars))>> \o RefEvents(h, Tail(pars))

\* biblio.xml is opened and written, or createBiblio raised: r is the
\* result of createBiblio
BiblioWritten(r) ==
  IF r.err # None
  THEN /\ Raises(r.h, r.err)
       /\ UNCHANGED <<outputs, hist>>
  ELSE /\ heap' = r.h
       /\ outputs' = Write(Open(outputs, "Biblio"), "Biblio", r.h,
                           r.v.biblio)
       /\ hist' = hist \o RefEvents(r.h, r.v.pars)
                    \o <<WriteEvent("Biblio", r.v.biblio)>>
       /\ cpc' = "done"
       /\ UNCHANGED raised

\* line 21: self.createBiblio(self.doc)
CreateBiblio ==
  /\ cpc = "createBiblio"
  /\ BiblioWritten(createBiblio(heap, doc))
  /\ UNCHANGED <<doc, meta, images, run, loc>>

NextContent ==
  \/ CreateSynopsis /\ UNCHANGED exceptContent
  \/ SynAffiliations /\ UNCHANGED exceptContent
  \/ SynAbstract /\ UNCHANGED exceptContent
  \/ SynEditors /\ UNCHANGED exceptContent
  \/ SynDates /\ UNCHANGED exceptContent
  \/ SynNotes /\ UNCHANGED exceptContent
  \/ SynCorrespAndWrite /\ UNCHANGED exceptContent
  \/ CreateMain /\ UNCHANGED exceptContent
  \/ FigLoop /\ UNCHANGED exceptContent
  \/ TableLoop /\ UNCHANGED exceptContent
  \/ WriteTables /\ UNCHANGED exceptContent
  \/ XrefLoop /\ UNCHANGED exceptContent
  \/ CaptionLoop /\ UNCHANGED exceptContent
  \/ InlineLoop /\ UNCHANGED exceptContent
  \/ DispLoop /\ UNCHANGED exceptContent
  \/ ListLoop /\ UNCHANGED exceptContent
  \/ SuppLoop /\ UNCHANGED exceptContent
  \/ MainCleanup /\ UNCHANGED exceptContent
  \/ WriteMainOk /\ UNCHANGED exceptContent
  \/ WriteMainRaises /\ UNCHANGED exceptContent
  \/ CreateBiblio /\ UNCHANGED exceptContent

SpecContent == InitContent /\ [][NextContent]_vars

(***************************************************************************)
(* Claims about the content generator, stated on outputs and hist.         *)
(***************************************************************************)
\* the positions of hist that hold an entry of the kind
EventsOf(kind) == {i \in 1..Len(hist) : hist[i].kind = kind}

\* the positions of hist where tables.xml was written
TablesWrites == {i \in EventsOf("write") : hist[i].name = "Tables"}

\* the last position of a non-empty set of positions
LastOf(S) == CHOOSE i \in S : \A j \in S : j <= i

\* the output files that hold a document
Written == {n \in DOMAIN outputs : outputs[n] # EmptyFile}

\* the constructor returned or raised
Ended == cpc \in {"done", "raised"}

\* C6: constructing OPSContent writes all four output files: when the
\* constructor has ended, either all of synop.xml, main.xml, biblio.xml and
\* tables.xml are written or none is, and a constructor that returned has
\* written all four.
C6_AllFourOrNone ==
  Ended => /\ Written \in {{}, OutputNames}
           /\ cpc = "done" => Written = OutputNames

\* C7: every iteration of the table loop on a <table-wrap> that has no HTML
\* <table> does not raise, leaves the label block and the image tag where
\* the table-wrap was (the table-wrap itself is gone), and makes no
\* `HTML version of` link.
C7_PlainTableWrapHandled ==
  \A i \in EventsOf("table-wrap") :
    ~hist[i].has_table =>
      /\ hist[i].err = None
      /\ hist[i].after =
           SubSeq(hist[i].before, 1, hist[i].at - 1)
             \o <<hist[i].table_label, hist[i].imgnode>>
             \o SubSeq(hist[i].before, hist[i].at + 1, Len(hist[i].before))
      /\ hist[i].label_block.tag = "div"
      /\ hist[i].label_block.attrs["class"] = "table_label"
      /\ hist[i].img.tag = "img"
      /\ ~hist[i].linked

\* the <table-wrap> elements of the article
SourceTableWraps == getElementsByTagName(heap, doc, "table-wrap")

\* C8: tables.xml is written at most once, and once in every run of
\* createMain that gets past the write step; the write comes after the
\* iterations of all <table-wrap> elements, and what is written is the
\* Tables document the last iteration made.  When the body has no
\* <table-wrap>, the write step raises (no Tables document is bound) and
\* leaves tables.xml empty.
C8_TablesWrittenOnceFromLast ==
  /\ Cardinality(TablesWrites) <= 1
  /\ \A w \in TablesWrites :
       /\ EventsOf("table-wrap") # {}
       /\ \A i \in EventsOf("table-wrap") : i < w
       /\ Cardinality(EventsOf("table-wrap")) = Len(SourceTableWraps)
       /\ hist[w].doc = hist[LastOf(EventsOf("table-wrap"))].table_doc
       /\ outputs["Tables"] = toprettyxml(heap, hist[w].doc)
  /\ "Tables" \in DOMAIN outputs =>
       IF SourceTableWraps = <<>>
       THEN /\ cpc = "raised"
            /\ raised = "UnboundLocalError"
            /\ TablesWrites = {}
            /\ outputs["Tables"] = EmptyFile
       ELSE Cardinality(TablesWrites) = 1
  /\ cpc \in {"xrefs", "captions", "inline", "disp", "lists", "supp",
              "extlinks", "writeMain", "createBiblio", "done"}
       => Cardinality(TablesWrites) = 1

\* two <table-wrap> elements were processed, each iteration made a Tables
\* document of its own (the first one got the HTML table), and tables.xml
\* was written from the second
C8_Witness ==
  /\ cpc = "done"
  /\ Cardinality(EventsOf("table-wrap")) = 2
  /\ \E w \in TablesWrites :
       /\ hist[w].doc = hist[LastOf(EventsOf("table-wrap"))].table_doc
       /\ \E i \in EventsOf("table-wrap") :
            hist[i].linked /\ hist[i].table_doc # hist[w].doc

\* the <ref> elements under <back>
BackRefs ==
  getElementsByTagName(heap, getElementsByTagName(heap, doc, "back")[1],
                       "ref")

\* the children of <body> in a written file
FileBody(file) == file.kids[1].kids[2].kids

\* C9: when <back> has no <ref>, the constructor still writes biblio.xml,
\* and its body holds the `References` heading and nothing else.
C9_NoRefsStillBiblio ==
  (Ended /\ BackRefs = <<>>) =>
    /\ "Biblio" \in Written
    /\ FileBody(outputs["Biblio"]) = <<El("h2", NoAttrs, <<Tx("References")>>)>>

RECURSIVE DocumentedNames(_, _)
\* the contributors as the description has them: `surname given-names`,
\* then `, ` after every contributor but the last and ` ` after the last
DocumentedNames(h, auths) ==
  IF auths = <<>> THEN ""
  ELSE getTagData(h, getElementsByTagName(h, Head(auths), "surname")).v
         \o " "
         \o getTagData(h, getElementsByTagName(h, Head(auths),
                                               "given-names")).v
         \o (IF Len(auths) > 1 THEN ", " ELSE " ")
         \o DocumentedNames(h, Tail(auths))

\* the string the description gives for the journal reference ref
DocumentedJournalString(h, ref) ==
  LET Nodes(tag) == getElementsByTagName(h, ref, tag)
      Data(tag) == getTagData(h, Nodes(tag)).v
  IN  Data("label") \o ". "
        \o DocumentedNames(h, Nodes("name"))
        \o (IF Nodes("etal") # <<>> THEN "et al. " ELSE "")
        \o "(" \o Data("year") \o ") "
        \o Data("article-title") \o " "
        \o Data("source") \o " "
        \o Data("volume")
        \o (IF Nodes("issue") # <<>> THEN "(" \o Data("issue") \o "): "
            ELSE ": ")
        \o Data("fpage")
        \o (IF Nodes("lpage") # <<>> THEN "-" \o Data("lpage") \o "."
            ELSE ".")

\* C10: the paragraph parseRef makes for a <ref> of citation-type journal
\* holds the label and `. `, the contributors (`, ` after each but the
\* last, one blank after the last), `et al. ` iff there is an <etal/>,
\* `(year) `, the title, the source, the volume, `(issue): ` or `: `, the
\* first page and `-lastpage.` or `.`; the reference 1 of Smith J and Doe A
\* reads `1. Smith J, Doe A (2012) A Study J. Examples 5(2): 10-20.`
C10_JournalString ==
  \A i \in EventsOf("ref") :
    hist[i].citation_type = "journal" =>
      /\ hist[i].text = DocumentedJournalString(heap, hist[i].ref)
      /\ getAttribute(heap, hist[i].ref, "id") = "B1" =>
           hist[i].text
             = "1. Smith J, Doe A (2012) A Study J. Examples 5(2): 10-20."

RECURSIVE FirstAppearance(_, _)
\* the ids in the order of their first appearance; seen: those met so far
FirstAppearance(ids, seen) ==
  IF ids = <<>> THEN seen
  ELSE FirstAppearance(Tail(ids),
                       IF IndexOf(seen, Head(ids)) = 0
                       THEN Append(seen, Head(ids)) ELSE seen)

RECURSIVE CitedAffiliations(_)
\* the affiliation ids the authors cite, author by author
CitedAffiliations(authors) ==
  IF authors = <<>> THEN <<>>
  ELSE Head(authors).affiliation \o CitedAffiliations(Tail(authors))

\* the superscripts of an author line, in order: the target and the text
\* of each link
SupLinks(line) ==
  LET sups == SelectSeq(line.kids, LAMBDA k : k.tag = "sup")
  IN  [i \in 1..Len(sups) |->
         [href |-> sups[i].kids[1].attrs["href"],
          text |-> sups[i].kids[1].kids[1].data]]

\* the affiliation superscripts: those that are no contact mark
AffiliationLinks(line) == SelectSeq(SupLinks(line), LAMBDA l : l.text # "*")

\* the superscripts the description gives the author list: one for every
\* affiliation an author cites, numbered 1 + the position of the id among
\* the ids in the order of first appearance, linked to synop.xml#<id>
DocumentedAffiliationLinks(authors) ==
  LET cited == CitedAffiliations(authors)
      first == FirstAppearance(cited, <<>>)
  IN  [i \in 1..Len(cited) |->
         [href |-> "synop.xml#" \o cited[i],
          text |-> Str(IndexOf(first, cited[i]))]]

\* the author line of the Synopsis document being built
AuthorLine == TreeOf(heap, heap[BodyOf(loc.synop)].kids[2])

\* C11: in the author line of the synopsis (the <h2> the author loop
\* builds, and the same line of synop.xml once written) every affiliation
\* id an author cites is a superscript whose number is 1 + the position of
\* the id in the order of first appearance over the whole author list, and
\* whose link goes to synop.xml#<id>.
C11_AffiliationNumbers ==
  /\ loc.synop # 0 =>
       AffiliationLinks(AuthorLine)
         = DocumentedAffiliationLinks(meta.article_meta.art_auths)
  /\ "Synopsis" \in Written =>
       AffiliationLinks(FileBody(outputs["Synopsis"])[2])
         = DocumentedAffiliationLinks(meta.article_meta.art_auths)

\* synop.xml is written with two superscripts 1 to synop.xml#aff1 and one
\* superscript 2 to synop.xml#aff2 after them
C11_Witness ==
  /\ "Synopsis" \in Written
  /\ LET links == AffiliationLinks(FileBody(outputs["Synopsis"])[2])
     IN  \E i, j, k \in 1..Len(links) :
           /\ i < j /\ i < k
           /\ links[i] = [href |-> "synop.xml#aff1", text |-> "1"]
           /\ links[j] = [href |-> "synop.xml#aff1", text |-> "1"]
           /\ links[k] = [href |-> "synop.xml#aff2", text |-> "2"]

\* the anchors of the affiliation paragraph of a synopsis body: the id and
\* the number of every <sup>
AffiliationAnchors(body) ==
  {[id |-> k.attrs["id"], text |-> k.kids[1].data] : k \in {body[3].kids[i] : i \in {j \in 1..Len(body[3].kids) : body[3].kids[j].tag = "sup"}}}

\* C27: in the synop.xml that was written, every affiliation superscript
\* of the author line links to synop.xml#<id> for an id that has an anchor
\* in the affiliation paragraph, and shows the number that anchor shows,
\* whatever the order in which the authors cite the affiliations.
C27_SuperscriptsMatchAnchors ==
  "Synopsis" \in Written =>
    LET body == FileBody(outputs["Synopsis"])
        links == AffiliationLinks(body[2])
    IN  \A i \in 1..Len(links) :
          \E a \in AffiliationAnchors(body) :
            /\ links[i].href = "synop.xml#" \o a.id
            /\ links[i].text = a.text

\* what the code does: the anchors are numbered by the position of the
\* entry in the metadata's affiliation list, whether or not an author
\* cites it, and the superscripts by first appearance in the author list
AnchorsNumberedByListPosition ==
  "Synopsis" \in Written =>
    /\ AffiliationAnchors(FileBody(outputs["Synopsis"]))
         = {[id |-> meta.article_meta.art_affs[k].rid, text |-> Str(k)] :
              k \in {j \in 1..Len(meta.article_meta.art_affs) : Contains(meta.article_meta.art_affs[j].rid, "aff")}}
    /\ AffiliationLinks(FileBody(outputs["Synopsis"])[2]) = DocumentedAffiliationLinks(meta.article_meta.art_auths)

\* synop.xml was written with the superscript 1 linking to synop.xml#aff2
\* beside the first author and the number 2 on the anchor aff2
NumbersDisagree ==
  /\ "Synopsis" \in Written
  /\ Len(AffiliationLinks(FileBody(outputs["Synopsis"])[2])) >= 1
  /\ AffiliationLinks(FileBody(outputs["Synopsis"])[2])[1] = [href |-> "synop.xml#aff2", text |-> "1"]
  /\ [id |-> "aff2", text |-> "2"] \in AffiliationAnchors(FileBody(outputs["Synopsis"]))

(***************************************************************************)
(* jptsmeta.py: Python values.  An attribute of the metadata object holds  *)
(* None, a string, a number, a node, a list, a dictionary or a namedtuple; *)
(* the values are tagged so that any two of them can be compared.          *)
(***************************************************************************)
PyNone == <<"None">>
PyStr(s) == <<"str", s>>
PyInt(n) == <<"int", n>>
PyNode(n) == <<"node", n>>
PyList(xs) == <<"list", xs>>
PyDict(d) == <<"dict", d>>
PyTuple(name, fields) == <<"tuple", name, fields>>

\* the truth value of `if v:`
Truthy(v) == v \notin {PyNone, PyStr(""), PyList(<<>>)}

\* `v or None` for the list v (lines 38-44)
OrNone(v) == IF Truthy(v) THEN v ELSE PyNone

RECURSIVE NodeValues(_)
\* the nodes as Python values
NodeValues(nodes) ==
  IF nodes = <<>> THEN <<>>
  ELSE <<PyNode(Head(nodes))>> \o NodeValues(Tail(nodes))

\* a NodeList
NodeList(nodes) == PyList(NodeValues(nodes))

\* the characters str.strip() removes
Whitespace == {" ", "\n", "\t"}

RECURSIVE lstrip(_)
lstrip(s) ==
  IF s # "" /\ SubSeq(s, 1, 1) \in Whitespace
  THEN lstrip(SubSeq(s, 2, Len(s))) ELSE s

RECURSIVE rstrip(_)
rstrip(s) ==
  IF s # "" /\ SubSeq(s, Len(s), Len(s)) \in Whitespace
  THEN rstrip(SubSeq(s, 1, Len(s) - 1)) ELSE s

\* str.strip()
strip(s) == rstrip(lstrip(s))

\* utils.nodeText(node): the stripped data of the first child; a node
\* without children, or whose first child has no data, gives ''
nodeText(h, node) ==
  LET fc == firstChild(h, node)
  IN  IF fc = 0 \/ h[fc].tag # "#text" THEN "" ELSE strip(h[fc].data)

\* JPTSMeta.getChildrenByTagName(searchterm, node): the child elements of
\* node with the tag name
getChildrenByTagName(h, searchterm, node) ==
  SelectSeq(h[node].kids, LAMBDA c : h[c].tag = searchterm)

\* `try: x = nodes[0] except IndexError: None else: x`
FirstNodeOrNone(nodes) == IF nodes = <<>> THEN PyNone ELSE PyNode(nodes[1])

\* `d[key] = value`
DictSet(d, key, value) == (key :> value) @@ d

RECURSIVE TextByAttribute(_, _, _, _)
\* `for j in nodes: d[j.getAttribute(attr)] = utils.nodeText(j)`
TextByAttribute(h, nodes, attr, d) ==
  IF nodes = <<>> THEN d
  ELSE TextByAttribute(h, Tail(nodes), attr,
                       DictSet(d, getAttribute(h, Head(nodes), attr),
                               PyStr(nodeText(h, Head(nodes)))))

RECURSIVE NodeByAttribute(_, _, _, _)
\* `for t in nodes: d[t.getAttribute(attr)] = t`
NodeByAttribute(h, nodes, attr, d) ==
  IF nodes = <<>> THEN d
  ELSE NodeByAttribute(h, Tail(nodes), attr,
                       DictSet(d, getAttribute(h, Head(nodes), attr),
                               PyNode(Head(nodes))))

RECURSIVE TextList(_, _)
\* `for jt in nodes: l.append(utils.nodeText(jt))`
TextList(h, nodes) ==
  IF nodes = <<>> THEN <<>>
  ELSE <<PyStr(nodeText(h, Head(nodes)))>> \o TextList(h, Tail(nodes))

\* the classes and their dtdVersion()
MetaClasses == {"JPTSMeta20", "JPTSMeta23", "JPTSMeta30"}

dtdVersion(cls) ==
  IF cls = "JPTSMeta20" THEN "2.0"
  ELSE IF cls = "JPTSMeta23" THEN "2.3" ELSE "3.0"

\* `self.name = value` for every name of the record attrs
SetAttrs(obj, attrs) == attrs @@ obj

\* getTopFloats_Wrap / getTopFloats_Group of the version classes: the first
\* element `tag` whose parent is <article>
TopFloats(h, d, tag) ==
  LET tops == SelectSeq(getElementsByTagName(h, d, tag),
                        LAMBDA fw : h[h[fw].parent].tag = "article")
  IN  FirstNodeOrNone(tops)

\* self.response with the test of self.sub_article left out
TopResponse_always(sub_article, response) == OrNone(response)

\* self.response (lines 38-44): None when there is a <sub-article>, else
\* the <response> elements, None when there are none
TopResponse(sub_article, response) == IF Truthy(sub_article) THEN PyNone ELSE OrNone(response)

\* JPTSMeta.getTopElements (lines 30-46); d is self.doc
getTopElements(h, d, cls) ==
  LET fronts == getElementsByTagName(h, d, "front")
      sub_article == NodeList(getElementsByTagName(h, d, "sub-article"))
      response == NodeList(getElementsByTagName(h, d, "response"))
  IN  IF fronts = <<>> THEN Raise(h, "IndexError")
      ELSE Ok(h,
              [front |-> PyNode(fronts[1]),
               back |-> FirstNodeOrNone(getElementsByTagName(h, d, "back")),
               sub_article |-> OrNone(sub_article),
               response |-> TopResponse(sub_article, response),
               floats_wrap |-> IF cls = "JPTSMeta23"
                               THEN TopFloats(h, d, "floats-wrap")
                               ELSE PyNone,
               floats_group |-> IF cls = "JPTSMeta30"
                                THEN TopFloats(h, d, "floats-group")
                                ELSE PyNone])

\* JPTSMeta.getFrontElements (lines 54-65)
getFrontElements(h, front) ==
  LET jms == getElementsByTagName(h, front, "journal-meta")
      ams == getElementsByTagName(h, front, "article-meta")
  IN  IF jms = <<>> \/ ams = <<>> THEN Raise(h, "IndexError")
      ELSE Ok(h,
              [journal_meta |-> PyNode(jms[1]),
               article_meta |-> PyNode(ams[1]),
               notes |-> FirstNodeOrNone(
                           getElementsByTagName(h, front, "notes"))])

\* the namedtuple Publisher
Publisher(name, place, content_type) ==
  PyTuple("Publisher",
          [name |-> name, loc |-> place, content_type |-> content_type])

\* JPTSMeta.getPublisher (lines 102-129)
getPublisher(h, jm, cls) ==
  LET pub_node == getElementsByTagName(h, jm, "publisher")
  IN  IF pub_node = <<>> THEN Ok(h, Publisher(PyNone, PyNone, PyNone))
      ELSE
      LET content_type == getAttribute(h, pub_node[1], "content-type")
          names == getElementsByTagName(h, pub_node[1], "publisher-name")
          locs == getElementsByTagName(h, pub_node[1], "publisher-loc")
      IN  IF names = <<>> THEN Raise(h, "IndexError")
          ELSE Ok(h,
                  Publisher(
                    PyStr(nodeText(h, names[1])),
                    IF locs = <<>> THEN PyNone
                    ELSE IF dtdVersion(cls) = "2.0"
                    THEN PyStr(nodeText(h, locs[1]))
                    ELSE PyNode(locs[1]),
                    IF content_type = "" THEN PyNone
                    ELSE PyStr(content_type)))

\* the namedtuple Journal_Title_Group of version 3.0 (lines 913-920)
JournalTitleGroup(h, group) ==
  PyTuple("Journal_Title_Group",
          [title |-> NodeList(getElementsByTagName(h, group, "journal-title")),
           subtitle |-> NodeList(getElementsByTagName(h, group,
                                                      "journal-subtitle")),
           trans |-> NodeList(getElementsByTagName(h, group, "trans-title")),
           abbrev |-> NodeList(getElementsByTagName(h, group,
                                                    "abbrev-journal-title"))])

RECURSIVE JournalTitleGroups(_, _, _)
\* lines 915-921: `for group in title_groups`
JournalTitleGroups(h, groups, d) ==
  IF groups = <<>> THEN d
  ELSE JournalTitleGroups(h, Tail(groups),
                          DictSet(d, getAttribute(h, Head(groups),
                                                  "content-type"),
                                  JournalTitleGroup(h, Head(groups))))

\* the attributes parseJournalMetadata of the class sets, the publisher
\* apart (lines 557-578, 690-725, 895-929)
JournalTitles(h, jm, cls) ==
  LET Texts(tag, attr) ==
        PyDict(TextByAttribute(h, getElementsByTagName(h, jm, tag), attr,
                               <<>>))
  IN  IF cls = "JPTSMeta20"
      THEN [journal_title |->
              PyList(TextList(h, getElementsByTagName(h, jm,
                                                      "journal-title"))),
            abbrev_journal_title |->
              Texts("abbrev-journal-title", "abbrev-type")]
      ELSE IF cls = "JPTSMeta23"
      THEN [journal_title |-> Texts("journal-title", "content-type"),
            journal_subtitle |-> Texts("journal-subtitle", "content-type"),
            trans_title |->
              NodeList(getElementsByTagName(h, jm, "trans-title")),
            trans_subtitle |->
              NodeList(getElementsByTagName(h, jm, "trans-subtitle")),
            abbrev_journal_title |->
              Texts("abbrev-journal-title", "abbrev-type")]
      ELSE [journal_title_group |->
              PyDict(JournalTitleGroups(
                       h, getElementsByTagName(h, jm, "journal-title-group"),
                       <<>>)),
            isbn |-> Texts("isbn", "content-type")]

\* parseJournalMetadata of the class: the attributes it sets
parseJournalMetadata(h, jm, cls) ==
  LET publisher == getPublisher(h, jm, cls)
  IN  IF publisher.err # None THEN publisher
      ELSE Ok(h,
              JournalTitles(h, jm, cls)
                @@ [journal_id |->
                      PyDict(TextByAttribute(
                               h, getElementsByTagName(h, jm, "journal-id"),
                               "journal-id-type", <<>>)),
                    issn |->
                      PyDict(TextByAttribute(
                               h, getElementsByTagName(h, jm, "issn"),
                               "pub-type", <<>>)),
                    publisher |-> publisher.v,
                    jm_notes |-> FirstNodeOrNone(
                                   getElementsByTagName(h, jm, "notes"))])

\* `trans[t.getAttribute('xml:lang')] = t` of version 2.0 (lines 602-604)
\* and the namedtuples trans_title / trans_subtitle of 2.3 and 3.0
RECURSIVE TransTitles(_, _, _)
TransTitles(h, nodes, name) ==
  IF nodes = <<>> THEN <<>>
  ELSE <<PyTuple(name,
                 [Node |-> PyNode(Head(nodes)),
                  content_type |->
                    PyStr(getAttribute(h, Head(nodes), "content-type")),
                  id |-> PyStr(getAttribute(h, Head(nodes), "id")),
                  xml_lang |->
                    PyStr(getAttribute(h, Head(nodes), "xml:lang"))])>>
       \o TransTitles(h, Tail(nodes), name)

\* the namedtuple Article_Title_Group of the class (lines 599-612, 751-781,
\* 942-972); tg is self.title_group
ArticleTitleGroup(h, tg, cls) ==
  LET article == getElementsByTagName(h, tg, "article-title")
      common ==
        [subtitle |-> NodeList(getElementsByTagName(h, tg, "subtitle")),
         alt_title |->
           PyDict(NodeByAttribute(h, getElementsByTagName(h, tg, "alt-title"),
                                  "alt-title-type", <<>>)),
         fn_group |->
           FirstNodeOrNone(getElementsByTagName(h, tg, "fn-group"))]
  IN  IF article = <<>> THEN Raise(h, "IndexError")
      ELSE Ok(h,
              PyTuple("Article_Title_Group",
                      [article_title |-> PyNode(article[1])] @@ common @@
                      IF cls = "JPTSMeta20"
                      THEN [trans_title |->
                              PyDict(NodeByAttribute(
                                       h, getElementsByTagName(h, tg,
                                                               "trans-title"),
                                       "xml:lang", <<>>))]
                      ELSE [trans_title |->
                              PyList(TransTitles(
                                       h, getElementsByTagName(h, tg,
                                                               "trans-title"),
                                       "trans_title")),
                            trans_subtitle |->
                              PyList(TransTitles(
                                       h, getElementsByTagName(
                                            h, tg, "trans-subtitle"),
                                       "trans_subtitle"))]))

\* the first statements of parseArticleMetadata, to self.title
ArticleTitles(h, am, cls) ==
  LET tgs == getElementsByTagName(h, am, "title-group")
  IN  IF tgs = <<>> THEN Raise(h, "IndexError")
      ELSE
      LET title == ArticleTitleGroup(h, tgs[1], cls)
      IN  IF title.err # None THEN title
          ELSE Ok(h,
                  [article_id |->
                     PyDict(TextByAttribute(
                              h, getElementsByTagName(h, am, "article-id"),
                              "pub-id-type", <<>>)),
                   article_categories |->
                     FirstNodeOrNone(
                       getElementsByTagName(h, am, "article-categories")),
                   title_group |-> PyNode(tgs[1]),
                   title |-> title.v])

\* jptscontrib.ContribGroup(each): the object made of a <contrib-group>
ContribGroup(each) == <<"ContribGroup", each>>

RECURSIVE ContribGroups(_)
\* JPTSMeta.getContribGroup (lines 192-207)
ContribGroups(nodes) ==
  IF nodes = <<>> THEN <<>>
  ELSE <<ContribGroup(Head(nodes))>> \o ContribGroups(Tail(nodes))

\* ContribGroup.contributors(): one contributor record for every <contrib>
\* of the group, in document order
contributors(h, group) ==
  LET Records[i \in 0..Len(getElementsByTagName(h, group[2], "contrib"))] ==
        IF i = 0 THEN <<>>
        ELSE Append(Records[i - 1],
                    <<"Contributor",
                      getElementsByTagName(h, group[2], "contrib")[i]>>)
  IN  Records[Len(getElementsByTagName(h, group[2], "contrib"))]

RECURSIVE AllContributors(_, _)
\* `for each in self.contrib_group: self.contrib += each.contributors()`
AllContributors(h, groups) ==
  IF groups = <<>> THEN <<>>
  ELSE contributors(h, Head(groups)) \o AllContributors(h, Tail(groups))

\* JPTSMeta.getAff (lines 209-224) and the statements around it
ArticleContributors(h, am) ==
  LET groups == ContribGroups(getElementsByTagName(h, am, "contrib-group"))
      affs == getChildrenByTagName(h, "aff", am)
  IN  [contrib_group |-> PyList(groups),
       contrib |-> PyList(AllContributors(h, groups)),
       affs |-> NodeList(affs),
       affs_by_id |-> PyDict(NodeByAttribute(h, affs, "id", <<>>)),
       author_notes |->
         FirstNodeOrNone(getElementsByTagName(h, am, "author-notes"))]

\* the namedtuple Pub_Date
Pub_Date(k, year, month, day, season, pub_type) ==
  PyTuple("Pub_Date",
          [Node |-> PyNode(k), year |-> year, month |-> month, day |-> day,
           season |-> season, pub_type |-> PyStr(pub_type)])

\* the month (tag "month") or day (tag "day") of the <pub-date> k that has
\* no season: lines 253-264
MonthOrDay(h, k, tag) ==
  IF getElementsByTagName(h, k, tag) = <<>> THEN PyInt(0)
  ELSE PyStr(nodeText(h, getElementsByTagName(h, k, tag)[1]))

\* a variant that reads <month> and <day> although a season is given
PubDateOf_ignoring_season(h, k) ==
  LET seasons == getElementsByTagName(h, k, "season")
      years == getElementsByTagName(h, k, "year")
  IN  IF years = <<>> THEN Raise(h, "IndexError")
      ELSE Ok(h,
              Pub_Date(k, PyStr(nodeText(h, years[1])),
                       MonthOrDay(h, k, "month"),
                       MonthOrDay(h, k, "day"),
                       IF seasons = <<>> THEN PyStr("")
                       ELSE PyStr(nodeText(h, seasons[1])),
                       getAttribute(h, k, "pub-type")))

\* the body of the loop of getPubDate for the <pub-date> k (lines 248-272)
PubDateOf(h, k) ==
  LET seasons == getElementsByTagName(h, k, "season")
      years == getElementsByTagName(h, k, "year")
  IN  IF years = <<>> THEN Raise(h, "IndexError")
      ELSE Ok(h,
              Pub_Date(k, PyStr(nodeText(h, years[1])),
                       IF seasons = <<>> THEN MonthOrDay(h, k, "month")
                       ELSE PyInt(0),
                       IF seasons = <<>> THEN MonthOrDay(h, k, "day")
                       ELSE PyInt(0),
                       IF seasons = <<>> THEN PyStr("")
                       ELSE PyStr(nodeText(h, seasons[1])),
                       getAttribute(h, k, "pub-type")))

RECURSIVE PubDateLoop(_, _, _, _)
\* `for k in self.article_meta.getElementsByTagName('pub-date')`; events
\* lists what every iteration recorded
PubDateLoop(h, nodes, pub_dates, events) ==
  IF nodes = <<>> THEN [v |-> PyDict(pub_dates), err |-> None, events |-> events]
  ELSE
  LET date == PubDateOf(h, Head(nodes))
  IN  IF date.err # None
      THEN [v |-> None, err |-> date.err, events |-> events]
      ELSE PubDateLoop(h, Tail(nodes),
                       DictSet(pub_dates,
                               getAttribute(h, Head(nodes), "pub-type"),
                               date.v),
                       Append(events, [kind |-> "pub-date",
                                       index |-> Len(events) + 1,
                                       date |-> date.v[3]]))

\* JPTSMeta.getPubDate (lines 238-273)
getPubDate(h, am) ==
  PubDateLoop(h, getElementsByTagName(h, am, "pub-date"), <<>>, <<>>)

\* self.volume / self.issue: the text in version 2.0 (lines 621-634), the
\* namedtuple of getVolume / getIssue in 2.3 and 3.0
VolumeOrIssue(h, am, tag, name, cls) ==
  LET nodes == getChildrenByTagName(h, tag, am)
  IN  IF nodes = <<>> THEN PyNone
      ELSE IF cls = "JPTSMeta20" THEN PyStr(nodeText(h, nodes[1]))
      ELSE PyTuple(name,
                   [value |-> PyStr(nodeText(h, nodes[1])),
                    seq |-> PyStr(getAttribute(h, nodes[1], "seq")),
                    content_type |->
                      PyStr(getAttribute(h, nodes[1], "content-type"))])

\* a variant that returns the list of the <supplement> children
getSupplement_list(h, am) ==
  NodeList(getChildrenByTagName(h, "supplement", am))

\* JPTSMeta.getSupplement (lines 315-327)
getSupplement(h, am) ==
  FirstNodeOrNone(getChildrenByTagName(h, "supplement", am))

\* self.volume ... self.supplement
VolumeIssue(h, am, cls) ==
  [volume |-> VolumeOrIssue(h, am, "volume", "Volume", cls),
   volume_id |->
     PyDict(TextByAttribute(h, getChildrenByTagName(h, "volume-id", am),
                            "pub-id-type", <<>>)),
   issue |-> VolumeOrIssue(h, am, "issue", "Issue", cls),
   issue_id |->
     PyDict(TextByAttribute(h, getElementsByTagName(h, am, "issue-id"),
                            "pub-id-type", <<>>)),
   supplement |-> getSupplement(h, am)]

\* JPTSMeta.getFPage (lines 329-340)
getFPage(h, am) ==
  LET fpage == getChildrenByTagName(h, "fpage", am)
  IN  IF fpage = <<>> THEN Raise(h, "IndexError")
      ELSE Ok(h,
              PyTuple("fpage",
                      [text |-> PyStr(nodeText(h, fpage[1])),
                       seq |-> PyStr(getAttribute(h, fpage[1], "seq"))]))

\* getLPage, getPageRange and getElocationID (lines 342-383): None or the
\* text of the first child element `tag`
TextOrNone(h, am, tag) ==
  LET nodes == getChildrenByTagName(h, tag, am)
  IN  IF nodes = <<>> THEN PyNone ELSE PyStr(nodeText(h, nodes[1]))

getLPage(h, am) == TextOrNone(h, am, "lpage")

getPageRange(h, am) == TextOrNone(h, am, "page-range")

getElocationID(h, am) == TextOrNone(h, am, "elocation-id")

\* a variant that looks for the element, not for its text
ElocationGiven_strict(elocation_id) == elocation_id # PyNone

\* `if self.elocation_id:` (lines 639, 797, 988)
ElocationGiven(elocation_id) == Truthy(elocation_id)

\* "Get values for elocation_id, fpage, lpage, and page_range"
\* (lines 637-646, 795-804, 986-995); looked tells whether getFPage ran
Pages(h, am) ==
  LET elocation_id == getElocationID(h, am)
      fpage == getFPage(h, am)
  IN  IF ElocationGiven(elocation_id)
      THEN [v |-> [elocation_id |-> elocation_id, fpage |-> PyNone,
                   lpage |-> PyNone, page_range |-> PyNone],
            err |-> None, looked |-> FALSE]
      ELSE IF fpage.err # None
      THEN [v |-> [elocation_id |-> elocation_id],
            err |-> fpage.err, looked |-> TRUE]
      ELSE [v |-> [elocation_id |-> elocation_id, fpage |-> fpage.v,
                   lpage |-> getLPage(h, am),
                   page_range |-> getPageRange(h, am)],
            err |-> None, looked |-> TRUE]

\* the names the last statements of parseArticleMetadata set to None
NoneAttributes(cls) ==
  {"history", "self_uri", "related_article", "abstract", "trans_abstract",
   "kwd_group", "conference", "counts", "custom_meta_wrap"}
  \cup (IF cls = "JPTSMeta30" THEN {"permissions", "funding_group"}
        ELSE {"copyright_statement", "copyright_year", "license",
              "contract_num", "contract_sponsor"})
  \cup (IF cls = "JPTSMeta23"
        THEN {"permissions", "grant_num", "grant_sponsor"} ELSE {})

\* self.email ... self.custom_meta_wrap
ArticleRest(h, am, cls) ==
  [email |-> NodeList(getChildrenByTagName(h, "email", am)),
   ext_link |-> NodeList(getChildrenByTagName(h, "ext-link", am)),
   uri |-> NodeList(getChildrenByTagName(h, "uri", am)),
   product |-> NodeList(getChildrenByTagName(h, "product", am)),
   supplementary_material |->
     NodeList(getChildrenByTagName(h, "supplementary-material", am))]
  @@ [name \in NoneAttributes(cls) |-> PyNone]

(***************************************************************************)
(* The articles the metadata model is constructed from.                    *)
(***************************************************************************)
\* the optional elements that occur at most once
OptionalElements ==
  {"back", "notes", "publisher", "publisher-loc", "article-categories",
   "fn-group", "author-notes", "volume", "issue", "supplement", "lpage",
   "page-range", "elocation-id"}

\* how many optional elements one article of the first family leaves out
MaxAbsent == 2

\* how many <pub-date> elements an article has at most
MaxPubDates == 2

\* how many <sub-article> and how many <response> elements an article has
\* at most
MaxSubArticles == 2

\* a child that is not there
Absent == "<absent>"

\* an element with text; the text "" is an element without children
TextEl(tag, attrs, text) ==
  El(tag, attrs, IF text = "" THEN <<>> ELSE <<Tx(text)>>)

\* the <pub-date> elements tried: season, month, day and year are the text
\* of the child or Absent
PubDateKinds ==
  {[type |-> t, season |-> s, month |-> m, day |-> d, year |-> "2012"] :
     t \in {"epub"}, s \in {Absent, "Spring"}, m \in {Absent, "7"},
     d \in {Absent, " 4 "}}
  \cup {[type |-> "collection", season |-> "", month |-> "7",
         day |-> Absent, year |-> "2012"],
        [type |-> "collection", season |-> Absent, month |-> "",
         day |-> "\n", year |-> " 2011"],
        [type |-> "ppub", season |-> Absent, month |-> "7", day |-> "4",
         year |-> Absent]}

DefaultPubDate ==
  [type |-> "epub", season |-> Absent, month |-> "7", day |-> " 4 ",
   year |-> "2012"]

\* the <pub-date> of the kind
PubDateTree(kind) ==
  El("pub-date", ("pub-type" :> kind.type),
     (IF kind.day = Absent THEN <<>>
      ELSE <<TextEl("day", NoAttrs, kind.day)>>)
     \o (IF kind.month = Absent THEN <<>>
         ELSE <<TextEl("month", NoAttrs, kind.month)>>)
     \o (IF kind.season = Absent THEN <<>>
         ELSE <<TextEl("season", NoAttrs, kind.season)>>)
     \o (IF kind.year = Absent THEN <<>>
         ELSE <<TextEl("year", NoAttrs, kind.year)>>))

RECURSIVE PubDateTrees(_)
PubDateTrees(kinds) ==
  IF kinds = <<>> THEN <<>>
  ELSE <<PubDateTree(Head(kinds))>> \o PubDateTrees(Tail(kinds))

\* the texts of <elocation-id> tried
ElocationTexts == {"e1000", "", " "}

\* the k-th <response> of an article
ResponseTree(k) ==
  El("response", ("id" :> IF k = 1 THEN "r1" ELSE IF k = 2 THEN "r2" ELSE "r3"),
     <<El("body", NoAttrs, <<>>)>>)

RECURSIVE ResponseTrees(_)
\* the first n <response> elements
ResponseTrees(n) ==
  IF n = 0 THEN <<>> ELSE Append(ResponseTrees(n - 1), ResponseTree(n))

RECURSIVE SubArticleTrees(_, _)
\* n <sub-article> elements, the first of them holding the elements inner
SubArticleTrees(n, inner) ==
  IF n = 0 THEN <<>>
  ELSE <<El("sub-article", ("article-type" :> "reply"),
            <<El("body", NoAttrs, <<>>)>> \o inner)>>
       \o SubArticleTrees(n - 1, <<>>)

\* the <sub-article> and <response> elements of the input: the responses
\* are children of <article>, or of the first <sub-article> when inp.nested
SubsAndResponses(inp) ==
  IF inp.nested /\ inp.subs > 0
  THEN SubArticleTrees(inp.subs, ResponseTrees(inp.resps))
  ELSE SubArticleTrees(inp.subs, <<>>) \o ResponseTrees(inp.resps)

\* the article of the input: every element of OptionalElements is there
\* unless inp.absent names it, <fpage> is there when inp.fpage
MetaTree(inp) ==
  LET Opt(name, t) == IF name \in inp.absent THEN <<>> ELSE <<t>>
      publisher ==
        El("publisher", ("content-type" :> "society"),
           <<TextEl("publisher-name", NoAttrs, "Public Library")>>
           \o Opt("publisher-loc",
                  TextEl("publisher-loc", NoAttrs, " San Francisco ")))
      journal_meta ==
        El("journal-meta", NoAttrs,
           <<TextEl("journal-id", ("journal-id-type" :> "nlm-ta"), "PLoS"),
             El("journal-title-group", NoAttrs,
                <<TextEl("journal-title", NoAttrs, "PLoS ONE")>>),
             TextEl("issn", ("pub-type" :> "epub"), "1932-6203")>>
           \o Opt("publisher", publisher))
      title_group ==
        El("title-group", NoAttrs,
           <<TextEl("article-title", NoAttrs, "A Title")>>
           \o Opt("fn-group", El("fn-group", NoAttrs, <<>>)))
      article_meta ==
        El("article-meta", NoAttrs,
           <<TextEl("article-id", ("pub-id-type" :> "doi"), "10.1371/1")>>
           \o Opt("article-categories",
                  El("article-categories", NoAttrs, <<>>))
           \o <<title_group,
                El("contrib-group", NoAttrs,
                   <<El("contrib", ("contrib-type" :> "author"), <<>>)>>),
                El("aff", ("id" :> "aff1"), <<>>)>>
           \o Opt("author-notes", El("author-notes", NoAttrs, <<>>))
           \o PubDateTrees(inp.pubdates)
           \o Opt("volume", TextEl("volume", ("seq" :> "2"), " 7 "))
           \o Opt("issue", TextEl("issue", NoAttrs, "3"))
           \o Opt("supplement", TextEl("supplement", NoAttrs, "S1"))
           \o (IF inp.fpage
               THEN <<TextEl("fpage", ("seq" :> "a"), "11")>> ELSE <<>>)
           \o Opt("lpage", TextEl("lpage", NoAttrs, "19"))
           \o Opt("page-range", TextEl("page-range", NoAttrs, "11-19"))
           \o Opt("elocation-id",
                  TextEl("elocation-id", NoAttrs, inp.eloc)))
      front ==
        El("front", NoAttrs,
           <<journal_meta, article_meta>>
           \o Opt("notes", El("notes", NoAttrs, <<>>)))
  IN  El("article", NoAttrs,
         <<front, El("body", NoAttrs, <<>>)>>
         \o Opt("back", El("back", NoAttrs, <<>>))
         \o SubsAndResponses(inp)
         \o <<El("floats-wrap", NoAttrs, <<>>),
              El("floats-group", NoAttrs, <<>>)>>)

\* the inputs: articles that leave out up to MaxAbsent optional elements or
\* all of them; articles with and without <elocation-id>, <fpage>, <lpage>
\* and <page-range>; articles with up to MaxPubDates <pub-date> elements;
\* articles with up to MaxSubArticles <sub-article> and <response> elements
MetaInputs ==
  {[cls |-> c, absent |-> a, eloc |-> "e1000", fpage |-> TRUE,
    pubdates |-> <<DefaultPubDate>>, subs |-> 0, resps |-> 0,
    nested |-> FALSE] :
     c \in MetaClasses,
     a \in {s \in SUBSET OptionalElements :
              Cardinality(s) <= MaxAbsent \/ s = OptionalElements}}
  \cup
  {[cls |-> c, absent |-> a, eloc |-> e, fpage |-> f,
    pubdates |-> <<DefaultPubDate>>, subs |-> 0, resps |-> 0,
    nested |-> FALSE] :
     c \in MetaClasses, a \in SUBSET {"lpage", "page-range", "elocation-id"},
     e \in ElocationTexts, f \in BOOLEAN}
  \cup
  {[cls |-> c, absent |-> {}, eloc |-> "e1000", fpage |-> TRUE,
    pubdates |-> p, subs |-> 0, resps |-> 0, nested |-> FALSE] :
     c \in MetaClasses,
     p \in UNION {[1..n -> PubDateKinds] : n \in 0..MaxPubDates}}
  \cup
  {[cls |-> c, absent |-> {}, eloc |-> "e1000", fpage |-> TRUE,
    pubdates |-> <<DefaultPubDate>>, subs |-> n, resps |-> r,
    nested |-> b] :
     c \in MetaClasses, n \in 0..MaxSubArticles, r \in 0..MaxSubArticles,
     b \in BOOLEAN}

(***************************************************************************)
(* JPTSMeta.__init__: the construction of a metadata object, one action    *)
(* for every method it calls; parseArticleMetadata goes in steps.          *)
(***************************************************************************)
\* lines 22-24: self.doc and self.publisher are set, getTopElements is next
InitMeta ==
  /\ ConvertIdle /\ ContentIdle /\ ZipIdle
  /\ \E inp \in MetaInputs :
       /\ mdom = AddTree(<<>>, MetaTree(inp), 0)
       /\ mcls = inp.cls
  /\ mpc = "getTopElements"
  /\ self = [doc |-> PyNode(1), publisher |-> PyStr("PLoS")]
  /\ mraised = None
  /\ mhist = <<>>

\* the node the attribute holds
NodeOf(name) == self[name][2]

\* the method returned after setting the attributes
MetaReturn(next, attrs) ==
  /\ self' = SetAttrs(self, attrs)
  /\ mpc' = next
  /\ UNCHANGED mraised

\* the method raised: the construction ends with the exception
MetaRaise(err) ==
  /\ mpc' = "raised"
  /\ mraised' = err
  /\ UNCHANGED self

\* the method returned result.v or raised result.err
MetaStep(next, result) ==
  IF result.err # None THEN MetaRaise(result.err)
  ELSE MetaReturn(next, result.v)

\* line 25
GetTopElements ==
  /\ mpc = "getTopElements"
  /\ MetaStep("getFrontElements", getTopElements(mdom, NodeOf("doc"), mcls))
  /\ UNCHANGED <<mdom, mcls, mhist>>

\* line 26
GetFrontElements ==
  /\ mpc = "getFrontElements"
  /\ MetaStep("parseJournalMetadata", getFrontElements(mdom, NodeOf("front")))
  /\ UNCHANGED <<mdom, mcls, mhist>>

\* line 27
ParseJournalMetadata ==
  /\ mpc = "parseJournalMetadata"
  /\ MetaStep("parseArticleMetadata",
              parseJournalMetadata(mdom, NodeOf("journal_meta"), mcls))
  /\ UNCHANGED <<mdom, mcls, mhist>>

\* line 28, parseArticleMetadata to self.title
ParseArticleTitles ==
  /\ mpc = "parseArticleMetadata"
  /\ MetaStep("contrib", ArticleTitles(mdom, NodeOf("article_meta"), mcls))
  /\ UNCHANGED <<mdom, mcls, mhist>>

\* self.contrib_group ... self.author_notes
ParseContributors ==
  /\ mpc = "contrib"
  /\ MetaReturn("pub_date", ArticleContributors(mdom, NodeOf("article_meta")))
  /\ UNCHANGED <<mdom, mcls, mhist>>

\* self.pub_date = self.getPubDate()
ParsePubDate ==
  /\ mpc = "pub_date"
  /\ LET dates == getPubDate(mdom, NodeOf("article_meta"))
     IN  /\ IF dates.err # None THEN MetaRaise(dates.err)
            ELSE MetaReturn("volume", [pub_date |-> dates.v])
         /\ mhist' = mhist \o dates.events
  /\ UNCHANGED <<mdom, mcls>>

\* self.volume ... self.supplement
ParseVolumeIssue ==
  /\ mpc = "volume"
  /\ MetaReturn("pages", VolumeIssue(mdom, NodeOf("article_meta"), mcls))
  /\ UNCHANGED <<mdom, mcls, mhist>>

\* self.elocation_id ... self.page_range
ParsePages ==
  /\ mpc = "pages"
  /\ LET pages == Pages(mdom, NodeOf("article_meta"))
     IN  /\ IF pages.err # None
            THEN /\ mpc' = "raised"
                 /\ mraised' = pages.err
                 /\ self' = SetAttrs(self, pages.v)
            ELSE MetaReturn("rest", pages.v)
         /\ mhist' = IF pages.looked
                     THEN Append(mhist, [kind |-> "getFPage"]) ELSE mhist
  /\ UNCHANGED <<mdom, mcls>>

\* self.email ... self.custom_meta_wrap; the object is constructed
ParseRest ==
  /\ mpc = "rest"
  /\ MetaReturn("done", ArticleRest(mdom, NodeOf("article_meta"), mcls))
  /\ UNCHANGED <<mdom, mcls, mhist>>

NextMeta ==
  \/ GetTopElements /\ UNCHANGED exceptMeta
  \/ GetFrontElements /\ UNCHANGED exceptMeta
  \/ ParseJournalMetadata /\ UNCHANGED exceptMeta
  \/ ParseArticleTitles /\ UNCHANGED exceptMeta
  \/ ParseContributors /\ UNCHANGED exceptMeta
  \/ ParsePubDate /\ UNCHANGED exceptMeta
  \/ ParseVolumeIssue /\ UNCHANGED exceptMeta
  \/ ParsePages /\ UNCHANGED exceptMeta
  \/ ParseRest /\ UNCHANGED exceptMeta

SpecMeta == InitMeta /\ [][NextMeta]_vars

\* the construction returned
Constructed == mpc = "done"

(***************************************************************************)
(* Claims about the metadata model.                                        *)
(***************************************************************************)
\* the <article-meta> of the article
ArticleMeta == getElementsByTagName(mdom, 1, "article-meta")[1]

\* the article has the element somewhere
InSource(tag) == getElementsByTagName(mdom, 1, tag) # <<>>

\* the pagination statements of parseArticleMetadata ran
PagesParsed == "elocation_id" \in DOMAIN self

\* getFPage was called
FPageLookedUp == \E i \in 1..Len(mhist) : mhist[i].kind = "getFPage"

\* fpage, lpage and page_range are all None
NoPages ==
  /\ {"fpage", "lpage", "page_range"} \subseteq DOMAIN self
  /\ self["fpage"] = PyNone
  /\ self["lpage"] = PyNone
  /\ self["page_range"] = PyNone

\* C12: for each of the three classes, when <article-meta> has an
\* <elocation-id> child, the parsed fpage, lpage and page_range are all
\* None, whether or not <fpage>, <lpage> and <page-range> are in the
\* source, and <fpage> is not looked up.
C12_ElocationExcludesPages ==
  (PagesParsed /\ getChildrenByTagName(mdom, "elocation-id", ArticleMeta) # <<>>)
    => (NoPages /\ ~FPageLookedUp)

\* what the code does: the pages are None when the stripped text of
\* <elocation-id> is not empty
ElocationTextExcludesPages ==
  (PagesParsed /\ Truthy(getElocationID(mdom, ArticleMeta)))
    => (NoPages /\ ~FPageLookedUp)

\* the <pub-date> elements of the article, in document order
PubDateNodes == getElementsByTagName(mdom, ArticleMeta, "pub-date")

\* the <pub-date> k has a child element `tag`
HasChild(k, tag) == getChildrenByTagName(mdom, tag, k) # <<>>

\* the text of the child `tag` of k, or 0 when k has no such child
ChildTextOrZero(k, tag) ==
  IF HasChild(k, tag)
  THEN PyStr(nodeText(mdom, getChildrenByTagName(mdom, tag, k)[1]))
  ELSE PyInt(0)

\* what is documented for the date recorded for the <pub-date> k
DocumentedPubDate(k, date) ==
  IF HasChild(k, "season")
  THEN date.month = PyInt(0) /\ date.day = PyInt(0)
  ELSE /\ date.season = PyStr("")
       /\ date.month = ChildTextOrZero(k, "month")
       /\ date.day = ChildTextOrZero(k, "day")

\* the dates getPubDate recorded so far, one for every <pub-date> processed
PubDateEvents == SelectSeq(mhist, LAMBDA e : e.kind = "pub-date")

\* C13: for every <pub-date> getPubDate processes: with a <season> child
\* the recorded month and day are both 0, also when <month> and <day>
\* children are there; without a <season> child the season is the empty
\* string and month and day are each the text of the child when it is
\* there and 0 when it is missing.  The same holds for every entry of the
\* dictionary getPubDate returns.
C13_SeasonOverridesMonthDay ==
  /\ \A i \in 1..Len(PubDateEvents) :
       /\ PubDateEvents[i].date.Node = PyNode(PubDateNodes[i])
       /\ DocumentedPubDate(PubDateNodes[i], PubDateEvents[i].date)
  /\ "pub_date" \in DOMAIN self =>
       /\ Len(PubDateEvents) = Len(PubDateNodes)
       /\ \A t \in DOMAIN self["pub_date"][2] :
            DocumentedPubDate(self["pub_date"][2][t][3].Node[2],
                              self["pub_date"][2][t][3])

\* getPubDate processed a <pub-date> with <season>, <month> and <day>
\* and one with a <month> and neither <season> nor <day>
C13_Witness ==
  /\ "pub_date" \in DOMAIN self
  /\ \E i, j \in 1..Len(PubDateEvents) :
       /\ HasChild(PubDateNodes[i], "season")
       /\ HasChild(PubDateNodes[i], "month")
       /\ HasChild(PubDateNodes[i], "day")
       /\ PubDateEvents[i].date.season = PyStr("Spring")
       /\ PubDateEvents[i].date.month = PyInt(0)
       /\ ~HasChild(PubDateNodes[j], "season")
       /\ PubDateEvents[j].date.month = PyStr("7")
       /\ PubDateEvents[j].date.day = PyInt(0)

\* the attribute that holds what was read for the optional element, once
\* the statement that sets it ran (self.publisher holds the publisher label
\* of the caller until parseJournalMetadata ran)
AttributeRead(tag) ==
  CASE tag = "back" -> "back" \in DOMAIN self
    [] tag = "notes" -> "notes" \in DOMAIN self
    [] tag \in {"publisher", "publisher-loc"} -> "jm_notes" \in DOMAIN self
    [] tag = "article-categories" -> "article_categories" \in DOMAIN self
    [] tag = "fn-group" -> "title" \in DOMAIN self
    [] tag = "author-notes" -> "author_notes" \in DOMAIN self
    [] tag = "volume" -> "volume" \in DOMAIN self
    [] tag = "issue" -> "issue" \in DOMAIN self
    [] tag = "supplement" -> "supplement" \in DOMAIN self
    [] tag = "lpage" -> "lpage" \in DOMAIN self
    [] tag = "page-range" -> "page_range" \in DOMAIN self
    [] tag = "elocation-id" -> "elocation_id" \in DOMAIN self

\* the value of that attribute
AttributeOf(tag) ==
  CASE tag = "back" -> self["back"]
    [] tag = "notes" -> self["notes"]
    [] tag = "publisher" -> self["publisher"]
    [] tag = "publisher-loc" -> self["publisher"][3].loc
    [] tag = "article-categories" -> self["article_categories"]
    [] tag = "fn-group" -> self["title"][3].fn_group
    [] tag = "author-notes" -> self["author_notes"]
    [] tag = "volume" -> self["volume"]
    [] tag = "issue" -> self["issue"]
    [] tag = "supplement" -> self["supplement"]
    [] tag = "lpage" -> self["lpage"]
    [] tag = "page-range" -> self["page_range"]
    [] tag = "elocation-id" -> self["elocation_id"]

\* a required element is missing where the construction looks for it: no
\* <fpage> when the pagination is read from <fpage>, or a <pub-date>
\* without <year>
RequiredMissing ==
  \/ ~InSource("fpage") /\ ~Truthy(getElocationID(mdom, ArticleMeta))
  \/ \E i \in 1..Len(PubDateNodes) : ~HasChild(PubDateNodes[i], "year")

TopElementsSet == "response" \in DOMAIN self

\* the <sub-article> and the <response> elements of the source document
SourceSubArticles == getElementsByTagName(mdom, 1, "sub-article")
SourceResponses == getElementsByTagName(mdom, 1, "response")

\* C22: once getTopElements has run, and so after the construction,
\* sub_article and response are never both set: with one or more
\* <sub-article> elements in the document sub_article is their list and
\* response is None, also when <response> elements are present; with none,
\* sub_article is None and response is the list of the <response>
\* elements, or None when there are none.
C22_SubArticleExcludesResponse ==
  TopElementsSet =>
    /\ ~(self["sub_article"] # PyNone /\ self["response"] # PyNone)
    /\ SourceSubArticles # <<>> =>
         /\ self["sub_article"] = NodeList(SourceSubArticles)
         /\ self["response"] = PyNone
    /\ SourceSubArticles = <<>> =>
         /\ self["sub_article"] = PyNone
         /\ self["response"] = IF SourceResponses = <<>> THEN PyNone ELSE NodeList(SourceResponses)

\* a metadata object was constructed from an article with two
\* <sub-article> and two <response> elements
C22_Witness ==
  /\ Constructed
  /\ Len(SourceSubArticles) = 2
  /\ Len(SourceResponses) = 2
  /\ self["response"] = PyNone
  /\ Len(self["sub_article"][2]) = 2

(***************************************************************************)
(* Claims about the elements of the output documents.                      *)
(***************************************************************************)
RECURSIVE ElementsOf(_, _)
RECURSIVE ElementsIn(_, _)
\* the elements of the tree t, not looking inside the elements named in skip
ElementsOf(t, skip) ==
  IF t.tag \in {"#text", ""} \cup skip THEN {}
  ELSE {t} \cup ElementsIn(t.kids, skip)
ElementsIn(ts, skip) ==
  IF ts = <<>> THEN {}
  ELSE ElementsOf(Head(ts), skip) \cup ElementsIn(Tail(ts), skip)

\* the elements of the <body> of the input article
SourceElements == ElementsIn(run.input.body, {})

\* those that are not inside a <table-wrap>
SourceElementsOutsideTables == ElementsIn(run.input.body, {"table-wrap"})

\* the elements of the documents written
OutputElements == UNION {ElementsOf(outputs[n], {}) : n \in Written}

\* content generation ran to its end
Completed == cpc = "done"

\* the child elements of t that are named tag
ChildElements(t, tag) == {i \in 1..Len(t.kids) : t.kids[i].tag = tag}

\* the list-type values documented to give <ol>
OrderedListTypes ==
  {"order", "alpha-lower", "alpha-upper", "roman-lower", "roman-upper"}

\* what is documented for the source <list> l (it has an id): an output
\* element with the id is <ol> or <ul> by the list-type of l, has as many
\* <li> children as l has <list-item> children and no <list-item> below
\* it, and has none of the three attributes
ListConverted(l) ==
  \E e \in OutputElements :
    /\ "id" \in DOMAIN e.attrs
    /\ e.attrs["id"] = l.attrs["id"]
    /\ e.tag = IF "list-type" \in DOMAIN l.attrs
                  /\ l.attrs["list-type"] \in OrderedListTypes
               THEN "ol" ELSE "ul"
    /\ Cardinality(ChildElements(e, "li"))
         = Cardinality(ChildElements(l, "list-item"))
    /\ "list-item" \notin TreeTags(e)
    /\ DOMAIN e.attrs \cap {"list-content", "list-type", "prefix-word"} = {}

\* the lists of the set of elements that can be followed by their id
ListsWithId(elements) ==
  {l \in elements : l.tag = "list" /\ "id" \in DOMAIN l.attrs}

\* C14: every <list> in the body becomes <ol> when its list-type is order,
\* alpha-lower, alpha-upper, roman-lower or roman-upper and <ul> otherwise,
\* every <list-item> under it becomes <li>, and afterwards it has none of
\* the attributes list-content, list-type and prefix-word.  No <list> and
\* no <list-item> is left in a document written.
C14_ListsConverted ==
  Completed =>
    /\ \A l \in ListsWithId(SourceElements) : ListConverted(l)
    /\ \A e \in OutputElements : e.tag \notin {"list", "list-item"}

\* what the code does: the lists outside every <table-wrap> are converted
ListsOutsideTablesConverted ==
  Completed =>
    /\ \A l \in ListsWithId(SourceElementsOutsideTables) : ListConverted(l)
    /\ \A e \in ElementsOf(outputs["Main"], {}) :
         e.tag \notin {"list", "list-item"}

\* a run with a bullet list that has the three attributes and a list inside
ListsOutsideTablesWitness ==
  /\ Completed
  /\ \E l \in ListsWithId(SourceElementsOutsideTables) :
       /\ l.attrs["id"] = "L1"
       /\ ListConverted(l)

\* the tag names of the source vocabulary that no output is to contain
SourceTags ==
  {"sec", "italic", "bold", "xref", "fig", "table-wrap", "disp-formula",
   "inline-formula"}

\* the written document of the output has no element of the source
\* vocabulary
NoSourceTags(name) ==
  \A e \in ElementsOf(outputs[name], {}) : e.tag \notin SourceTags

\* C15: after content generation completes, no output document (synopsis,
\* main, bibliography, tables) has an element named sec, italic, bold,
\* xref, fig, table-wrap, disp-formula or inline-formula, whatever the
\* input article is.
C15_NoSourceTagsLeft ==
  Completed => \A name \in Written : NoSourceTags(name)

\* what the code does: the main document, the synopsis and the bibliography
\* of these articles have none; the tables document keeps what the cells of
\* the HTML table held, <bold> apart
NoSourceTagsOutsideTables ==
  Completed => \A name \in Written \ {"Tables"} : NoSourceTags(name)

\* the iterations of the xref loop so far
XrefEvents == SelectSeq(hist, LAMBDA e : e.kind = "xref")

\* the href documented for the ref-type, None for no href
DocumentedHref(ref_type, rid) ==
  IF ref_type = "bibr" THEN "biblio.xml#" \o rid
  ELSE IF ref_type \in {"fig", "supplementary-material", "table"}
  THEN "main.xml#" \o rid
  ELSE IF ref_type = "aff" THEN "synop.xml#" \o rid
  ELSE None

\* what is documented for one <xref>: it is <a> without ref-type and rid,
\* with the href of its ref-type or without href, and nothing is raised
XrefLinked(e) ==
  /\ e.err = None
  /\ e.elem.tag = "a"
  /\ DOMAIN e.elem.attrs \cap {"ref-type", "rid"} = {}
  /\ IF DocumentedHref(e.ref_type, e.rid) = None
     THEN "href" \notin DOMAIN e.elem.attrs
     ELSE /\ "href" \in DOMAIN e.elem.attrs
          /\ e.elem.attrs["href"] = DocumentedHref(e.ref_type, e.rid)

\* C19: every <xref> of the body becomes <a> without ref-type and rid; its
\* href is biblio.xml#<rid> for bibr, main.xml#<rid> for fig,
\* supplementary-material and table, synop.xml#<rid> for aff; an <xref> of
\* another ref-type ends without href and processing continues, whatever
\* was processed before it.
C19_XrefsLinked ==
  \A i \in 1..Len(XrefEvents) : XrefLinked(XrefEvents[i])

\* what the code does: an <xref> of a known ref-type is linked as
\* documented; one of another ref-type gets the href of the <xref> before
\* it, and raises UnboundLocalError when no <xref> of a known ref-type
\* came before it
XrefsLinkedOrStale ==
  \A i \in 1..Len(XrefEvents) :
    LET e == XrefEvents[i]
    IN  IF DocumentedHref(e.ref_type, e.rid) # None THEN XrefLinked(e)
        ELSE IF e.dest_bound
        THEN /\ e.err = None
             /\ i > 1
             /\ e.elem.attrs["href"] = XrefEvents[i - 1].elem.attrs["href"]
        ELSE e.err = "UnboundLocalError"

\* an <xref> of the ref-types fig, table, supplementary-material and aff
\* was linked
XrefsLinkedWitness ==
  /\ Completed
  /\ \A t \in {"fig", "table", "supplementary-material", "aff"} :
       \E i \in 1..Len(XrefEvents) :
         XrefEvents[i].ref_type = t /\ XrefLinked(XrefEvents[i])

\* the files of the walk whose name without extension is stem, in walk
\* order
FilesWithStem(walk, stem) ==
  SelectSeq(walk, LAMBDA f : splitext0(basename(f)) = stem)

\* the <img> elements of the main document written whose src is a file of
\* the images directory
ResolvedImages ==
  {e \in ElementsOf(outputs["Main"], {}) :
     /\ e.tag = "img"
     /\ "src" \in DOMAIN e.attrs
     /\ \E i \in 1..Len(images) : images[i] = e.attrs["src"]}

\* C20: the image lookup for figures, tables, inline and display equations
\* uses the first file, in walk order, whose name without extension is the
\* short name; when several files share it, the one met first in the walk
\* is the img src.
C20_FirstMatchUsed ==
  Completed =>
    \A e \in ResolvedImages :
      e.attrs["src"]
        = Head(FilesWithStem(images, splitext0(basename(e.attrs["src"]))))

\* what the code does: the file met last in the walk is the img src
LastMatchUsed ==
  Completed =>
    \A e \in ResolvedImages :
      LET same == FilesWithStem(images, splitext0(basename(e.attrs["src"])))
      IN  e.attrs["src"] = same[Len(same)]

\* a figure, a table and two equations were resolved in a directory where
\* every short name occurs twice
LastMatchWitness ==
  /\ Completed
  /\ images = DupWalk
  /\ {"images/old/g001.jpg", "images/old/t002.jpg", "images/old/e001.gif",
      "images/old/e002.gif"}
       \subseteq {e.attrs["src"] : e \in ResolvedImages}


(***************************************************************************)
(* A second construction of OPSContent on the same input file, the same    *)
(* metadata and back-data objects and the same output directory.           *)
(***************************************************************************)
\* the files the construction wrote, from its write events
WrittenBy(events) ==
  {events[i].name : i \in {j \in 1..Len(events) : events[j].kind = "write"}}

\* what a construction left: the files, the files it wrote itself and the
\* exception it ended with
Outcome == [outputs |-> outputs, written |-> WrittenBy(hist), raised |-> raised]

\* content.py lines 8-21 once more: the input file is parsed anew, the
\* metadata object (and the nodes it holds) and the files of the output
\* directory are those the first construction left
Rerun ==
  /\ Ended
  /\ run.n < run.of
  /\ run' = [run EXCEPT !.n = @ + 1, !.first = Outcome]
  /\ heap' = AddTree(heap, ArticleTree(run.input.body, run.input.refs), 0)
  /\ doc' = NewId(heap)
  /\ cpc' = "createSynopsis"
  /\ loc' = NoLocals
  /\ raised' = None
  /\ hist' = <<>>
  /\ UNCHANGED <<meta, images, outputs>>

\* both constructions run under one interpreter: its minidom either writes
\* an attribute whose value is None or raises, in the second construction
\* as in the first
SameMinidom ==
  (run.n > 1 /\ cpc = "writeMain" /\ HasNoneAttr(heap, loc.main))
    => ((cpc' = "raised") <=> ("Main" \notin run.first.written))

InitRerun == InitContentRuns(2)

NextRerun ==
  \/ NextContent /\ SameMinidom
  \/ Rerun /\ UNCHANGED exceptContent

SpecRerun == InitRerun /\ [][NextRerun]_vars

\* the second construction ended
RerunEnded == Ended /\ run.n = 2

SourceHeap == AddTree(<<>>, ArticleTree(run.input.body, run.input.refs), 0)

\* node n of heap h has the tag name, attributes and parent it has in
\* orig, and so have the tag names of its descendants
SameSubtree(h, orig, n) ==
  /\ h[n].tag = orig[n].tag
  /\ h[n].attrs = orig[n].attrs
  /\ h[n].parent = orig[n].parent
  /\ \E k \in 1..Len(h[orig[n].parent].kids) : h[orig[n].parent].kids[k] = n
  /\ \A k \in 1..Len(Descendants(orig, n)) : h[Descendants(orig, n)[k]].tag = orig[Descendants(orig, n)[k]].tag

\* createSynopsis has run to its end
SynopsisWritten == "Synopsis" \in WrittenBy(hist)

\* C29: createSynopsis leaves the metadata object unchanged: after it has
\* run, the abstract node of the metadata still has its original tag name,
\* attributes and parent in the source document, and its descendants
\* their tag names.
C29_MetadataUnchanged ==
  SynopsisWritten => SameSubtree(heap, SourceHeap, meta.article_meta.abstract)

\* what the code does: the abstract node itself is moved into the body of
\* the synopsis document, renamed div and given the id abstract, and its
\* title, sec, p and italic descendants are renamed; the source document
\* has no abstract left
AbstractMovedAndRenamed ==
  SynopsisWritten =>
    LET a == meta.article_meta.abstract
    IN  /\ heap[a].tag = "div"
        /\ heap[a].attrs = ("id" :> "abstract")
        /\ heap[heap[a].parent].tag = "body"
        /\ heap[a].parent # SourceHeap[a].parent
        /\ getElementsByTagName(heap, 1, "abstract") = <<>>
        /\ \A k \in 1..Len(Descendants(heap, a)) : heap[Descendants(heap, a)[k]].tag \notin {"title", "sec", "p", "italic"}

\* createSynopsis and the rest of the constructor ran to the end
AbstractMovedWitness ==
  /\ Completed
  /\ SynopsisWritten
  /\ heap[meta.article_meta.abstract].tag = "div"

\* the links into tables.xml in the main document that was written
TableLinks ==
  {e \in ElementsOf(outputs["Main"], {}) :
     e.tag = "a" /\ "href" \in DOMAIN e.attrs /\ StartsWith(e.attrs["href"], "tables.xml#")}

\* the targets tables.xml offers: tables.xml#<id> for every id in the file
TableTargets ==
  {"tables.xml#" \o e.attrs["id"] : e \in {x \in ElementsOf(outputs["Tables"], {}) : "id" \in DOMAIN x.attrs}}

\* C26: when the constructor has written main.xml, every link
\* tables.xml#h<name> in it points to an element with the id h<name> in
\* the tables.xml written by the same run, for any number of <table-wrap>
\* elements with an HTML table.
C26_TableLinksResolve ==
  "Main" \in WrittenBy(hist) => \A l \in TableLinks : l.attrs["href"] \in TableTargets

\* what the code does: tables.xml holds the HTML table of the last
\* <table-wrap> only, and only when that one has an HTML table; the links
\* of the table-wraps before it are written all the same
OnlyLastTableLinkResolves ==
  "Main" \in WrittenBy(hist) =>
    /\ Cardinality({t \in TableTargets : StartsWith(t, "tables.xml#h")}) <= 1
    /\ \A t \in TableTargets : StartsWith(t, "tables.xml#h") => t \in {l.attrs["href"] : l \in TableLinks}

\* main.xml was written with two links into tables.xml, one of which has
\* no target
DanglingTableLink ==
  /\ Completed
  /\ Cardinality(TableLinks) = 2
  /\ Cardinality(TableTargets) = 1
  /\ \E l \in TableLinks : l.attrs["href"] \notin TableTargets

\* the body of the Main document as the first part of createMain, which
\* ends with divTitleScan, leaves it
ScannedBody(h, mainbody) == TreeOf(h, mainbody).kids

\* the first part of createMain raised
ScanRaised == cpc = "raised" /\ loc.main = 0 /\ "Synopsis" \in WrittenBy(hist)

\* the position of the title a section has as a child, 0 when it has none
OwnTitle(t) ==
  IF \E k \in 1..Len(t.kids) : t.kids[k].tag = "title"
  THEN CHOOSE k \in 1..Len(t.kids) : t.kids[k].tag = "title" /\ \A j \in 1..(k - 1) : t.kids[j].tag # "title"
  ELSE 0

\* the heading of a section at the depth, when the list has one
HeadingAt(depth) == IF depth < Len(taglist) THEN taglist[depth + 1] ELSE "overflow"

\* the children of a section with its own title promoted
Promoted(t, depth) ==
  IF OwnTitle(t) = 0 THEN t.kids
  ELSE [t.kids EXCEPT ![OwnTitle(t)].tag = HeadingAt(depth)]

RECURSIVE DocumentedScan(_, _)
\* the trees as the description leaves them: a section is a div without
\* sec-type, its own title the heading of its depth among the titled
\* sections; a section without a title has no heading and its sections
\* stay at its depth; italic is i
DocumentedScan(ts, depth) ==
  IF ts = <<>> THEN <<>>
  ELSE LET t == Head(ts)
           scanned ==
             IF t.tag = "#text" THEN t
             ELSE IF t.tag = "sec"
             THEN [tag |-> "div",
                   attrs |-> [a \in DOMAIN t.attrs \ {"sec-type"} |-> t.attrs[a]],
                   kids |-> DocumentedScan(Promoted(t, depth), IF OwnTitle(t) = 0 THEN depth ELSE depth + 1),
                   data |-> t.data]
             ELSE [tag |-> IF t.tag = "italic" THEN "i" ELSE t.tag,
                   attrs |-> t.attrs,
                   kids |-> DocumentedScan(t.kids, depth),
                   data |-> t.data]
       IN  <<scanned>> \o DocumentedScan(Tail(ts), depth)

RECURSIVE TitledNesting(_)
\* how deep the sections with a title of their own are nested in the trees
TitledNesting(ts) ==
  IF ts = <<>> THEN 0
  ELSE LET t == Head(ts)
           below == TitledNesting(t.kids)
           here == IF t.tag = "sec" /\ OwnTitle(t) # 0 THEN below + 1 ELSE below
           others == TitledNesting(Tail(ts))
       IN  IF here > others THEN here ELSE others

\* C21: divTitleScan promotes the title of every section to the heading of
\* the section's nesting depth among the titled sections, h2 at depth 0
\* to h6 at depth 4, the same heading for siblings; a section without a
\* title of its own gets no heading and does not stop the scan; only a
\* nesting deeper than the five headings makes the scan fail.
C21_HeadingByDepth ==
  [][CreateMain =>
       /\ cpc' = "raised" => TitledNesting(run.input.body) > Len(taglist)
       /\ cpc' = "figs" => ScannedBody(heap', loc'.mainbody) = DocumentedScan(run.input.body, 0)]_vars

RECURSIVE UntitledSection(_)
\* some section of the trees has no <title> below it when the scan, which
\* renames the first <title> below each section it visits, gets to it
UntitledSection(ts) ==
  IF ts = <<>> THEN FALSE
  ELSE \/ /\ Head(ts).tag = "sec"
          /\ OwnTitle(Head(ts)) = 0
       \/ UntitledSection(Head(ts).kids)
       \/ UntitledSection(Tail(ts))

\* what the code does: the scan raises IndexError exactly when a section
\* has no title of its own or the titled sections are nested deeper than
\* the list of headings; when it does not, the headings are as described
ScanRaisesOnUntitled ==
  [][CreateMain =>
       /\ cpc' = "raised" <=> (UntitledSection(run.input.body) \/ TitledNesting(run.input.body) > Len(taglist))
       /\ cpc' = "raised" => raised' = "IndexError"
       /\ cpc' = "figs" => ScannedBody(heap', loc'.mainbody) = DocumentedScan(run.input.body, 0)]_vars

\* the scan raised IndexError on a body whose only section has no title
UntitledSectionStopsScan ==
  /\ ScanRaised
  /\ raised = "IndexError"
  /\ run.input.body = <<SecUntitled(<<>>)>>

\* DispLoop takes a <disp-formula>: the formula it takes
DispTaken == cpc = "disp" /\ loc.pending # <<>>

\* in heap g the formula disp of heap h is as the description leaves it:
\* a new paragraph that holds the equation image comes right after the
\* formula's parent, the nodes that followed the formula in its parent
\* are, in order, the children of a second new paragraph right after the
\* first when there are any, and the formula is gone from its parent
FormulaRestructured(h, g, disp) ==
  LET parent == h[disp].parent
      grandparent == h[parent].parent
      trailing == SubSeq(h[parent].kids, IndexOf(h[parent].kids, disp) + 1, Len(h[parent].kids))
      after == SubSeq(g[grandparent].kids, IndexOf(g[grandparent].kids, parent) + 1, Len(g[grandparent].kids))
      before == SubSeq(h[grandparent].kids, IndexOf(h[grandparent].kids, parent) + 1, Len(h[grandparent].kids))
  IN  /\ IndexOf(g[parent].kids, disp) = 0
      /\ g[parent].kids = SubSeq(h[parent].kids, 1, IndexOf(h[parent].kids, disp) - 1)
      /\ Len(after) = Len(before) + (IF trailing = <<>> THEN 1 ELSE 2)
      /\ after[1] > Len(h)
      /\ g[after[1]].tag = "p"
      /\ Len(g[after[1]].kids) = 1
      /\ g[g[after[1]].kids[1]].tag = "img"
      /\ trailing # <<>> =>
           /\ after[2] > Len(h)
           /\ g[after[2]].tag = "p"
           /\ g[after[2]].kids = trailing
      /\ SubSeq(after, Len(after) - Len(before) + 1, Len(after)) = before

\* C23: every <disp-formula> of the body that has a graphic is
\* restructured, whether or not its parent has a following sibling and
\* whether or not content follows it in its parent: the image paragraph is
\* placed right after the parent, the content after the formula is moved to
\* a second paragraph after it, the formula is removed, and the step does
\* not fail.
C23_FormulaRestructured ==
  [][(DispLoop /\ DispTaken /\ getElementsByTagName(heap, Head(loc.pending), "graphic") # <<>>) =>
       /\ cpc' = "disp"
       /\ FormulaRestructured(heap, heap', Head(loc.pending))]_vars

\* what the code does: for a formula whose parent has a next sibling the
\* step does what is described; for one whose parent is the last child the
\* step raises NameError (disp_p_node_ is bound nowhere) after moving the
\* content that followed the formula into a paragraph that is placed
\* nowhere
RestructuredUnlessParentIsLast ==
  [][(DispLoop /\ DispTaken /\ getElementsByTagName(heap, Head(loc.pending), "graphic") # <<>>) =>
       IF nextSibling(heap, heap[Head(loc.pending)].parent) # 0
       THEN cpc' = "disp" /\ FormulaRestructured(heap, heap', Head(loc.pending))
       ELSE /\ cpc' = "raised"
            /\ raised' = "NameError"
            /\ IndexOf(heap'[heap[Head(loc.pending)].parent].kids, Head(loc.pending)) # 0]_vars

\* the constructor raised NameError in the loop of the display formulas
LastParagraphFormulaRaises ==
  /\ cpc = "raised"
  /\ raised = "NameError"
  /\ loc.pending # <<>>
  /\ heap[Head(loc.pending)].tag = "disp-formula"

\* a formula with content after it was restructured and the constructor
\* completed
FormulaRestructuredWitness ==
  /\ Completed
  /\ run.input.body = <<DispBlock, TablePlainBlock>>

\* SuppLoop takes a <supplementary-material> whose label is its child
SuppTaken ==
  /\ cpc = "supp"
  /\ loc.pending # <<>>
  /\ getElementsByTagName(heap, Head(loc.pending), "label") # <<>>
  /\ heap[getElementsByTagName(heap, Head(loc.pending), "label")[1]].parent = Head(loc.pending)

\* the label of the element taken
LabelTaken == getElementsByTagName(heap, Head(loc.pending), "label")[1]

\* the element taken has an id whose first segment is a known journal
KnownJournal ==
  FirstSegment(getAttribute(heap, Head(loc.pending), "id"), ".") \in DOMAIN plos_jrns

\* in heap g the label is the child of an anchor, a child of the element
\* supp_mat, that links to href
LabelWrapped(g, supp_mat, label, href) ==
  /\ g[label].parent # supp_mat
  /\ g[g[label].parent].tag = "a"
  /\ g[g[label].parent].parent = supp_mat
  /\ g[g[label].parent].kids = <<label>>
  /\ hasAttribute(g, g[label].parent, "href")
  /\ getAttribute(g, g[label].parent, "href") = href

\* in heap g the label is a child of supp_mat and supp_mat has no anchor
\* child
LabelDirect(g, supp_mat, label) ==
  /\ g[label].parent = supp_mat
  /\ \A i \in 1..Len(g[supp_mat].kids) : g[g[supp_mat].kids[i]].tag # "a"

\* the hyperlink of the element taken
SuppHref ==
  plos_jrns[FirstSegment(getAttribute(heap, Head(loc.pending), "id"), ".")]
    \o "article/fetchSingleRepresentation.action?uri="
    \o getAttribute(heap, Head(loc.pending), "xlink:href")

\* C24: the label of a <supplementary-material> is wrapped in a hyperlink
\* <base-url>article/fetchSingleRepresentation.action?uri=<href> exactly
\* when the element has an xlink:href attribute and the first
\* dot-delimited segment of its id is a known journal; when either is
\* missing no anchor is created and the label stays a child of the
\* element; in both cases the step does not fail.
C24_AnchorNeedsHrefAndJournal ==
  [][(SuppLoop /\ SuppTaken) =>
       /\ cpc' = "supp"
       /\ IF hasAttribute(heap, Head(loc.pending), "xlink:href") /\ KnownJournal
          THEN LabelWrapped(heap', Head(loc.pending), LabelTaken, SuppHref)
          ELSE LabelDirect(heap', Head(loc.pending), LabelTaken)]_vars

\* what the code does: the anchor is made exactly when the journal is
\* known; getAttribute gives "" for a missing xlink:href, so the anchor is
\* in place, with a link that ends in uri=, before removeAttribute raises
AnchorNeedsJournalOnly ==
  [][(SuppLoop /\ SuppTaken) =>
       /\ cpc' = "supp"
       /\ IF KnownJournal
          THEN LabelWrapped(heap', Head(loc.pending), LabelTaken, SuppHref)
          ELSE LabelDirect(heap', Head(loc.pending), LabelTaken)]_vars

\* a label linked to <base-url>article/fetchSingleRepresentation.action?uri=
\* with nothing after it, in a document the constructor completed
AnchorWithoutHref ==
  /\ Completed
  /\ \E n \in 1..Len(heap) :
       /\ heap[n].tag = "a"
       /\ hasAttribute(heap, n, "href")
       /\ getAttribute(heap, n, "href") = "http://www.plosone.org/article/fetchSingleRepresentation.action?uri="

\* an element of an unknown journal kept its label as a child, in a
\* document the constructor completed
UnknownJournalNoAnchor ==
  /\ Completed
  /\ run.input.body = <<TablePlainBlock, SuppUnknownBlock>>

(***************************************************************************)
(* The EPUB directory and its packaging: utils.makeEPUBBase, the files     *)
(* the content generator and the image copy put under OPS, and             *)
(* utils.epubZip with recursive_zip.  Paths on disk are relative to the    *)
(* output directory (makeEPUBBase's location, epubZip's outdirect), which  *)
(* is the empty path.                                                      *)
(***************************************************************************)

\* the most files put under OPS before the directory is packaged
MaxFiles == 3

\* the output directory itself
Root == ""

\* the literal makeEPUBBase writes to the mimetype file
MimetypeContent == "application/epub+zip"

\* the literal makeEPUBBase writes to META-INF/container.xml (abridged)
ContainerXml == "<container><rootfile full-path='OPS/content.opf'/></container>"

\* os.path.isfile and os.path.isdir
isfile(p) == p \in DOMAIN disk
isdir(p) == p \in dirs

\* os.listdir(directory): the names in a directory, in no particular order
listdir(directory) ==
  {basename(p) : p \in {q \in (DOMAIN disk \cup dirs) \ {Root} : dirname(q) = directory}}

\* open(path, 'w') ... write(content)
WriteFile(d, path, content) == (path :> content) @@ d

\* makeEPUBBase(location) on the files d and the directories ds: the root
\* directory if it is not there, the mimetype file, META-INF and OPS
\* (os.mkdir raises OSError when the directory exists), container.xml,
\* OPS/css and article.css, which is opened for writing before urllib2, a
\* name the module never imports, is looked up: the call ends with
\* NameError and leaves article.css empty
makeEPUBBase(d, ds) ==
  LET withRoot == ds \cup {Root}
      withMime == WriteFile(d, "mimetype", MimetypeContent)
      withContainer == WriteFile(withMime, join("META-INF", "container.xml"), ContainerXml)
  IN  IF "META-INF" \in ds
      THEN [disk |-> withMime, dirs |-> withRoot, err |-> "OSError"]
      ELSE IF "OPS" \in ds
      THEN [disk |-> withMime, dirs |-> withRoot \cup {"META-INF"}, err |-> "OSError"]
      ELSE IF join("OPS", "css") \in ds
      THEN [disk |-> withContainer, dirs |-> withRoot \cup {"META-INF", "OPS"}, err |-> "OSError"]
      ELSE [disk |-> WriteFile(withContainer, join(join("OPS", "css"), "article.css"), ""),
            dirs |-> withRoot \cup {"META-INF", "OPS", join("OPS", "css")},
            err |-> "NameError"]

\* a call of makeEPUBBase on the output directory
MakeEPUBBase ==
  /\ zpc = "ready"
  /\ LET made == makeEPUBBase(disk, dirs)
     IN  /\ disk' = made.disk
         /\ dirs' = made.dirs
         /\ zraised' = made.err
  /\ UNCHANGED <<zpc, epub, todo, cwd, zsaved>>

\* the directories buildCache makes in the cache root before the base EPUB
CacheDirs == {"img_cache", "logs", "css"}

\* buildCache(location): os.mkdir of the cache root, which raises OSError
\* when it exists, and of its three directories, then makeEPUBBase on the
\* cache root
BuildCache ==
  /\ zpc = "ready"
  /\ IF isdir(Root)
     THEN /\ zraised' = "OSError"
          /\ UNCHANGED <<disk, dirs>>
     ELSE LET made == makeEPUBBase(disk, dirs \cup {Root} \cup CacheDirs)
          IN  /\ disk' = made.disk
              /\ dirs' = made.dirs
              /\ zraised' = made.err
  /\ UNCHANGED <<zpc, epub, todo, cwd, zsaved>>

\* the files the content generator writes (OPSContent.outputs) and the
\* images it looks for under OPS/images
OutputFiles == {join("OPS", "synop.xml"), join("OPS", "main.xml")}
ImageDirs == {join("OPS", "images"), join(join("OPS", "images"), "figures")}
ImageFiles == {join(join("OPS", "images"), "fig1.png"), join(join(join("OPS", "images"), "figures"), "fig2.png")}

\* the files put under OPS so far
Added == DOMAIN disk \cap (OutputFiles \cup ImageFiles)

\* a generated file or an image is written into the directory
AddFile ==
  /\ zpc = "ready"
  /\ Cardinality(Added) < MaxFiles
  /\ \E p \in (OutputFiles \cup ImageFiles) \ DOMAIN disk :
       /\ isdir(dirname(p))
       /\ disk' = WriteFile(disk, p, "<" \o basename(p) \o ">")
  /\ UNCHANGED <<dirs, zpc, epub, todo, zraised, cwd, zsaved>>

\* an image directory is made
AddDir ==
  /\ zpc = "ready"
  /\ \E d \in ImageDirs \ dirs :
       /\ isdir(dirname(d))
       /\ dirs' = dirs \cup {d}
  /\ UNCHANGED <<disk, zpc, epub, todo, zraised, cwd, zsaved>>

\* the directories epubZip packages, in its order
ZipRoots == <<"META-INF", "OPS">>

\* ZipFile.write(filename, arcname): one entry of the archive
Entry(filename, arcname) == [name |-> arcname, content |-> disk[filename]]

\* a call recursive_zip(zipf, directory, folder) that has not listed its
\* directory yet, and one that is going through its listing
Call(directory, folder) == [directory |-> directory, folder |-> folder, listed |-> FALSE, left |-> {}]
Listing(call, items) == [call EXCEPT !.listed = TRUE, !.left = items]

\* the archive name recursive_zip gives a file from the folder parameter
ArcName_folder(directory, folder, item) == join(folder, item)
\* the archive name recursive_zip gives a file: its path, the folder
\* parameter is passed along but never used
ArcName(directory, folder, item) == join(directory, item)

\* epubZip's argument: the output directory, as an absolute path
outdirect == join(current_dir, "out")

\* epubZip up to its first recursive_zip call: the archive is created
\* empty, the working directory is saved, the process enters the output
\* directory (os.chdir raises OSError when it is not there) and mimetype is
\* written (ZipFile.write raises OSError when it is not there)
EpubZipOpen ==
  /\ zpc = "ready"
  /\ zsaved' = cwd
  /\ IF isdir(Root) /\ isfile("mimetype")
     THEN /\ epub' = <<Entry("mimetype", "mimetype")>>
          /\ todo' = <<Call(ZipRoots[1], ""), Call(ZipRoots[2], "")>>
          /\ zpc' = "zip"
          /\ zraised' = None
          /\ cwd' = outdirect
     ELSE /\ epub' = <<>>
          /\ todo' = <<>>
          /\ zpc' = "ready"
          /\ zraised' = "OSError"
          /\ cwd' = IF isdir(Root) THEN outdirect ELSE cwd
  /\ UNCHANGED <<disk, dirs>>

\* one step of the innermost recursive_zip call: list the directory, or
\* take the next item in the order os.listdir gave (a file is written, a
\* directory is gone through before the next item, anything else is
\* skipped), or return
RecursiveZip ==
  /\ zpc = "zip"
  /\ todo # <<>>
  /\ LET top == Head(todo)
         rest == Tail(todo)
     IN  IF ~top.listed
         THEN IF isdir(top.directory)
              THEN /\ todo' = <<Listing(top, listdir(top.directory))>> \o rest
                   /\ UNCHANGED <<epub, zpc, zraised>>
              ELSE /\ todo' = <<>>
                   /\ zpc' = "ready"
                   /\ zraised' = "OSError"
                   /\ UNCHANGED epub
         ELSE IF top.left = {}
         THEN /\ todo' = rest
              /\ UNCHANGED <<epub, zpc, zraised>>
         ELSE \E item \in top.left :
                LET p == join(top.directory, item)
                    next == Listing(top, top.left \ {item})
                IN  /\ IF isfile(p)
                       THEN /\ epub' = Append(epub, Entry(p, ArcName(top.directory, top.folder, item)))
                            /\ todo' = <<next>> \o rest
                       ELSE IF isdir(p)
                       THEN /\ todo' = <<Call(p, join(top.folder, item)), next>> \o rest
                            /\ UNCHANGED epub
                       ELSE /\ todo' = <<next>> \o rest
                            /\ UNCHANGED epub
                    /\ UNCHANGED <<zpc, zraised>>
  /\ UNCHANGED <<disk, dirs, cwd, zsaved>>

\* epubZip after its last recursive_zip call: back to the saved directory
\* and the archive is closed
EpubZipClose ==
  /\ zpc = "zip"
  /\ todo = <<>>
  /\ zpc' = "closed"
  /\ cwd' = zsaved
  /\ UNCHANGED <<disk, dirs, epub, todo, zraised, zsaved>>

\* nothing is on disk, or only the output directory
InitZip ==
  /\ ConvertIdle /\ ContentIdle /\ MetaIdle
  /\ disk = <<>>
  /\ dirs \in {{}, {Root}}
  /\ zpc = "ready"
  /\ epub = <<>>
  /\ todo = <<>>
  /\ zraised = None
  /\ cwd = current_dir
  /\ zsaved = None

NextZip ==
  \/ MakeEPUBBase /\ UNCHANGED exceptZip
  \/ BuildCache /\ UNCHANGED exceptZip
  \/ AddFile /\ UNCHANGED exceptZip
  \/ AddDir /\ UNCHANGED exceptZip
  \/ EpubZipOpen /\ UNCHANGED exceptZip
  \/ RecursiveZip /\ UNCHANGED exceptZip
  \/ EpubZipClose /\ UNCHANGED exceptZip

SpecZip == InitZip /\ [][NextZip]_vars

\* epubZip returned
Zipped == zpc = "closed"

\* the regular files below a directory of the output directory
RegularFilesUnder(d) == {p \in DOMAIN disk : StartsWith(p, d \o "/")}

\* the names of the archive's entries after the first
LaterNames == {epub[i].name : i \in 2..Len(epub)}

\* C16: when epubZip has returned, the first entry of the archive is
\* mimetype with the content application/epub+zip that makeEPUBBase wrote;
\* the entries after it are the regular files under META-INF followed by
\* the regular files under OPS, each exactly once, under its path relative
\* to the output directory and with its content, and nothing else.
C16_MimetypeThenMetaInfThenOps ==
  Zipped =>
    /\ Len(epub) >= 1
    /\ epub[1] = [name |-> "mimetype", content |-> MimetypeContent]
    /\ LaterNames = RegularFilesUnder("META-INF") \cup RegularFilesUnder("OPS")
    /\ Len(epub) - 1 = Cardinality(RegularFilesUnder("META-INF") \cup RegularFilesUnder("OPS"))
    /\ \A i \in 2..Len(epub) : epub[i].content = disk[epub[i].name]
    /\ \A i, j \in 2..Len(epub) :
         (epub[i].name \in RegularFilesUnder("META-INF") /\ epub[j].name \in RegularFilesUnder("OPS")) => i < j

\* a directory made by makeEPUBBase, with a generated file, an image in a
\* nested image directory and the stylesheet, has been packaged
C16_Witness ==
  /\ Zipped
  /\ {join("OPS", "synop.xml"), join(join(join("OPS", "images"), "figures"), "fig2.png")} \subseteq LaterNames
  /\ join(join("OPS", "css"), "article.css") \in LaterNames
  /\ join("META-INF", "container.xml") \in LaterNames


\* the skeleton of spec section 3 is on disk: the mimetype file with its
\* literal, META-INF/container.xml and OPS/css/article.css
SkeletonComplete ==
  /\ {Root, "META-INF", "OPS", join("OPS", "css")} \subseteq dirs
  /\ {"mimetype", join("META-INF", "container.xml"), join(join("OPS", "css"), "article.css")} \subseteq DOMAIN disk
  /\ disk["mimetype"] = MimetypeContent
  /\ disk[join("META-INF", "container.xml")] = ContainerXml

\* C25: makeEPUBBase creates the skeleton only where it is absent: every
\* call, on an empty location or on one that holds all or part of the
\* skeleton, ends without an exception and with the full skeleton on disk,
\* so that a second call changes nothing; and buildCache on a new cache
\* root ends the same way, with the cache directories made.
C25_MakeEPUBBaseIdempotent ==
  [][(MakeEPUBBase \/ (BuildCache /\ ~isdir(Root))) =>
       /\ zraised' = None
       /\ SkeletonComplete'
       /\ SkeletonComplete => (disk' = disk /\ dirs' = dirs)]_vars

\* what the code does: every call of makeEPUBBase ends with an exception,
\* NameError after a full skeleton with an empty stylesheet was made on a
\* location without META-INF, OPS and OPS/css, OSError from os.mkdir
\* otherwise; the mimetype file is written before either
MakeEPUBBaseAlwaysRaises ==
  [][MakeEPUBBase =>
       /\ zraised' = IF {"META-INF", "OPS", join("OPS", "css")} \cap dirs = {} THEN "NameError" ELSE "OSError"
       /\ disk'["mimetype"] = MimetypeContent
       /\ zraised' = "NameError" => (SkeletonComplete' /\ disk'[join(join("OPS", "css"), "article.css")] = "")]_vars

\* makeEPUBBase was called on a location that holds the skeleton: the call
\* before made it, this one ended with OSError
SecondCallRaised ==
  /\ zpc = "ready"
  /\ SkeletonComplete
  /\ zraised = "OSError"
  /\ epub = <<>>
  /\ cwd = current_dir

\* no call is under way
BetweenCalls == zpc \in {"ready", "closed"}

\* C28: epubZip leaves the working directory of the process as it was
\* before the call on every outcome, also when it fails part-way because
\* the output directory has no mimetype file or no META-INF directory: no
\* call ever leaves the process in another directory than the one it
\* started in.
C28_WorkingDirectoryRestored == BetweenCalls => cwd = current_dir

\* what the code does: epubZip restores the directory it saved when it
\* returns, and leaves the process inside the output directory when it
\* raises after os.chdir
RestoredOnReturnOnly ==
  /\ Zipped => cwd = zsaved
  /\ [][(EpubZipOpen /\ zraised' = "OSError" /\ isdir(Root)) => cwd' = outdirect]_vars

\* epubZip failed on an output directory without a mimetype file and left
\* the process inside it
LeftInOutputDirectory ==
  /\ zpc = "ready"
  /\ zraised = "OSError"
  /\ isdir(Root)
  /\ ~isfile("mimetype")
  /\ cwd = outdirect

====
